---- MODULE Spec2Model ----
(***************************************************************************)
(* clipd: the synchronization hub (server) and the client sync agent.      *)
(*                                                                         *)
(* Server goroutines: runHub (one), handleConnections/readLoop (one per    *)
(* connection), and the short-lived goroutines runHub spawns after a       *)
(* failed write.  The channels register, unregister and broadcast are      *)
(* unbuffered: a send is a rendezvous with the hub's select.               *)
(***************************************************************************)
EXTENDS Integers, Sequences, FiniteSets, Bags, TLC

\* ------------------------------------------------------------------ bounds

\* Inbound text frames the server reads in one run of Spec.
MaxFrames == 2

\* Inbound text frames the server reads in one run of SpecFile.
MaxFileFrames == 1

\* Inbound text frames the server reads in one run of SpecFault.
MaxFaultFrames == 1

\* Connection faults (a connection that stops taking writes, a failed read)
\* in one run of SpecFault.
MaxFaults == 2

\* Inbound clipboard_update frames the server reads in one run of SpecStore.
MaxStoreFrames == 22

\* Times the local user copies something in one run of SpecClient.
MaxCopies == 2

\* Server messages handed to the client's Update.
MaxReceived == 2

\* Connection requests with a wrong key.
MaxRefusals == 2

\* Steps of the clock in one run of SpecKeepalive.
MaxTicks == 11

\* Device ids in the order uuid.NewString() hands them out: the i-th accepted
\* connection gets the i-th id.
DeviceOrder == <<"d1", "d2", "d3">>

Devices == {DeviceOrder[i] : i \in 1..Len(DeviceOrder)}

\* Clipboard contents clients put on the wire; "" is the empty string.
Contents == {"", "a", "b"}

\* ------------------------------------------------------- program constants

maxHistorySize == 20

\* The server's read deadline, SetReadDeadline(time.Now().Add(60 * time.Second)),
\* in seconds.
readWait == 60

\* The client's keepalive constants, in seconds.
pongWait == 60

pingPeriod == (pongWait * 9) \div 10

\* ------------------------------------------------------------------- state

VARIABLES
    clients,          \* map[string]*ClientInfo: id -> [Conn, Hostname]
    currentClip,      \* string
    clipboardHistory, \* []string, most recent first
    clipboardLock,    \* holder of the write lock: "" or a device id
    hpc,              \* per connection: where handleConnections/readLoop is
    pendMsg,          \* per connection: the message it is blocked sending on broadcast
    initCur,          \* per connection: local `current` of handleConnections
    conn,             \* per connection: "none", "open", "broken" (writes fail), "closed"
    sent,             \* per connection: frames successfully written to it, in order
    hubMsg,           \* runHub's local `message`
    activeClients,    \* runHub's local snapshot (ids)
    hubFailed,        \* clients of the current broadcast whose write failed
    unregGo,          \* per client: pending goroutines spawned at line 151
    closeCount,       \* per connection: times Conn was closed by the hub
    delCount,         \* per connection: times its registry entry was deleted
    unregSeen,        \* per connection: unregister requests the hub has received
    framesRead,       \* text frames read so far
    faults,           \* connection faults so far
    refusals,         \* connection requests answered 403 so far
    hubPc,            \* runHub's position when its case bodies are taken line by line
    hubClient,        \* runHub's local `client`: "" or a device id
    hubTodo,          \* clients of activeClients the for loop has not reached yet
    writing,          \* per connection: the goroutines inside Conn.WriteMessage
    mutexHeld,        \* the registry mutex as held by runHub: "", "R" or "W"
    now,              \* seconds since the server started
    readDeadline,     \* per connection: the read deadline set on it, in seconds
    pingDue,          \* per connection: when its client's ping ticker fires next
    dropped,          \* per connection: number of the last frame its read loop dropped
    \* ---- the client agent (one process): fields of Model
    connectedState,   \* "Connecting", "Connected", "Disconnected"
    syncEnabled,      \* bool
    lastError,        \* "nil" or the error's text
    wsConn,           \* "nil" or "conn"
    wsCtxCancel,      \* "nil" or "cancel"
    lastSentClip,     \* string
    lastRcvdClip,     \* string
    \* ---- the client agent: its runtime and surroundings
    cmds,             \* bag of tea.Cmds started and not yet run to their result
    inbox,            \* bag of tea.Msgs on their way to Update
    ctxCancelled,     \* whether the cancel func made by connectCmd was called
    listening,        \* whether the read goroutine of listenWebSocketCmd runs
    crashed,          \* the process died of a panic
    osClipboard,      \* the OS clipboard of the client's machine
    cliSent,          \* frames the client wrote to its connection, in order
    copies,           \* local copies made so far
    histList,         \* Model.histList: contents shown, most recent first
    incomingFileOffer, \* Model.incomingFileOffer: <<>> (nil) or <<offer>>
    offeringClientID, \* Model.offeringClientID
    listenCtx,        \* the context the read and ping goroutines select on
    wireClip,         \* content of the last clipboard_update read from the socket
    received,         \* server messages handed to Update so far
    serverClip,       \* the server's currentClip, as this client's traffic leaves it
    userChange        \* the OS clipboard holds a value the user copied while syncing

store == <<currentClip, clipboardHistory>>

hubLocals == <<hubMsg, activeClients, hubFailed>>

ghosts == <<closeCount, delCount, unregSeen>>

budget == <<framesRead, faults, refusals>>

hubStep == <<hubPc, hubClient, hubTodo, writing, mutexHeld>>

timing == <<now, readDeadline, pingDue>>

svars == <<clients, store, clipboardLock, hpc, pendMsg, initCur, conn, sent,
           hubLocals, unregGo, ghosts, budget, hubStep, timing, dropped>>

offerState == <<incomingFileOffer, offeringClientID>>

cbudget == <<copies, received, serverClip, userChange>>

cvars == <<connectedState, syncEnabled, lastError, wsConn, wsCtxCancel, lastSentClip,
           lastRcvdClip, cmds, inbox, ctxCancelled, listening, crashed, osClipboard,
           cliSent, histList, offerState, listenCtx, wireClip, cbudget>>

vars == <<svars, cvars>>

\* ---------------------------------------------------------------- messages

\* BaseMessage; dataKind is the dynamic Go type held by the Data interface{}.
\* targetId carries FileOfferData.TargetID or FileAckData.SourceID.
BaseMessage(type, senderId, dataKind, content, targetId, devices, history) ==
    [type |-> type, senderId |-> senderId, dataKind |-> dataKind,
     content |-> content, targetId |-> targetId, devices |-> devices,
     history |-> history]

NoMsg == BaseMessage("none", "", "nil", "", "", <<>>, <<>>)

\* json.Marshal(message): the wire form carries no Go type.
Marshal(message) == [message EXCEPT !.dataKind = "json"]

\* json.Unmarshal(p, &msg) of a well-formed text frame: Data decodes into a
\* generic map[string]interface{}; readLoop then injects the sender id.
Unmarshal(frame, senderId) ==
    BaseMessage(frame.type, senderId, "map", frame.content, frame.targetId, <<>>, <<>>)

\* Text frames a client can send.
Frames ==
    [type : {"clipboard_update"}, content : Contents, targetId : {""}]
    \cup [type : {"request_devices"}, content : {""}, targetId : {""}]
    \cup [type : {"file_offer"}, content : {"x.txt"}, targetId : Devices \cup {""}]
    \cup [type : {"file_ack"}, content : {"x.txt"}, targetId : Devices]

\* r.URL.Query().Get("hostname") of each connection.
QueryHostname ==
    [d \in Devices |-> CASE d = "d1" -> "alpha" [] d = "d2" -> "beta" [] OTHER -> ""]

\* if hostname == "" { hostname = "Unknown" }
Hostname(d) == IF QueryHostname[d] = "" THEN "Unknown" ELSE QueryHostname[d]

\* The {ID, Hostname} list built under mutex.RLock.
deviceList == [id \in DOMAIN clients |-> clients[id].Hostname]

\* ------------------------------------------------------------------- store

\* A faulty cut that keeps the tail of the extended history (it drops the
\* newest entry instead of the oldest).
PushHistoryKeepTail(history, content) ==
    LET h == <<content>> \o history
    IN  IF Len(h) > maxHistorySize THEN SubSeq(h, 2, Len(h)) ELSE h

\* append([]string{currentClip}, clipboardHistory...) and the cut to maxHistorySize.
PushHistory(history, content) ==
    LET h == <<content>> \o history
    IN  IF Len(h) > maxHistorySize THEN SubSeq(h, 1, maxHistorySize) ELSE h

\* ------------------------------------------------------------------ routing

\* A hub without the sender check.
SkipSenderNever(message, id) == FALSE

\* runHub: "Skip sender for certain types".
SkipSender(message, id) ==
    message.type = "clipboard_update" /\ id = message.senderId

\* A type switch that takes every message for a targeted one.
targettedAlways(message, id) == id # message.targetId

\* runHub: the type switch on message.Data that decides `targetted`.
targetted(message, id) ==
    CASE message.dataKind = "FileAckData" ->
            message.type = "file_ack" /\ id # message.targetId
      [] message.dataKind = "FileOfferData" ->
            message.type = "file_offer"
            /\ (  (message.targetId # "" /\ id # message.targetId)
               \/ id = message.senderId)
      [] OTHER -> FALSE

\* writeToClient: the write succeeds on an open connection and fails otherwise.
WriteOk(id) == conn[id] = "open"

\* sent after writeToClient(id, bytes) on top of the log `log`.
Written(log, id, bytes) ==
    [log EXCEPT ![id] = IF WriteOk(id) THEN Append(@, bytes) ELSE @]

\* ------------------------------------------------------ client: messages

\* A tea.Cmd: connectCmd, listenWebSocketCmd, checkLocalClipboardCmd(lastContent)
\* (run at once or by the 2 s tea.Tick), sendWebsocketMessageCmd(conn, message).
Cmd(name, ws, arg) == [name |-> name, conn |-> ws, arg |-> arg]

\* A tea.Msg: ConnectionStatusMsg{Status, Err, Conn, Cancel},
\* LocalClipboardCheckedMsg{Content, Changed, Err}, ErrorMsg{Err}.
TeaMsg(kind, status, err, ws, content, changed) ==
    [kind |-> kind, status |-> status, err |-> err, conn |-> ws,
     content |-> content, changed |-> changed]

ConnectionStatusMsg(status, err, ws) ==
    TeaMsg("ConnectionStatusMsg", status, err, ws, "", FALSE)

LocalClipboardCheckedMsg(content, changed, err) ==
    TeaMsg("LocalClipboardCheckedMsg", "", err, "nil", content, changed)

ErrorMsg(err) == TeaMsg("ErrorMsg", "", err, "nil", "", FALSE)

\* NewModel and Model.Init: the agent starts Disconnected with sync on, and
\* Init starts connectCmd.
ClientInit ==
    /\ connectedState = "Disconnected"
    /\ syncEnabled = TRUE
    /\ lastError = "nil"
    /\ wsConn = "nil"
    /\ wsCtxCancel = "nil"
    /\ lastSentClip = ""
    /\ lastRcvdClip = ""
    /\ cmds = SetToBag({Cmd("connectCmd", "nil", "")})
    /\ inbox = EmptyBag
    /\ ctxCancelled = FALSE
    /\ listening = FALSE
    /\ crashed = FALSE
    /\ osClipboard = ""
    /\ cliSent = <<>>
    /\ copies = 0
    /\ histList = <<>>
    /\ incomingFileOffer = <<>>
    /\ offeringClientID = ""
    /\ listenCtx = "nil"
    /\ wireClip = ""
    /\ received = 0
    /\ serverClip = ""
    /\ userChange = FALSE

\* -------------------------------------------------------------------- Init

Init ==
    /\ clients = <<>>
    /\ currentClip = ""
    /\ clipboardHistory = <<>>
    /\ clipboardLock = ""
    /\ hpc = [d \in Devices |-> "idle"]
    /\ pendMsg = [d \in Devices |-> NoMsg]
    /\ initCur = [d \in Devices |-> ""]
    /\ conn = [d \in Devices |-> "none"]
    /\ sent = [d \in Devices |-> <<>>]
    /\ hubMsg = NoMsg
    /\ activeClients = {}
    /\ hubFailed = {}
    /\ unregGo = [d \in Devices |-> 0]
    /\ closeCount = [d \in Devices |-> 0]
    /\ delCount = [d \in Devices |-> 0]
    /\ unregSeen = [d \in Devices |-> 0]
    /\ framesRead = 0
    /\ faults = 0
    /\ refusals = 0
    /\ hubPc = "select"
    /\ hubClient = ""
    /\ hubTodo = {}
    /\ writing = [d \in Devices |-> {}]
    /\ mutexHeld = ""
    /\ now = 0
    /\ readDeadline = [d \in Devices |-> 0]
    /\ pingDue = [d \in Devices |-> 0]
    /\ dropped = [d \in Devices |-> 0]
    /\ ClientInit

\* ------------------------------------------------------- handleConnections

\* The configured key (loadEnv: CLIPBOARD_API_KEY) and the keys requests carry.
apiKey == "key"

ApiKeys == {"key", "other", ""}

\* A handler that admits every request.
AuthorizedAlways(queryApiKey) == TRUE

\* if queryApiKey != apiKey { http.Error(w, ..., http.StatusForbidden); return }
Authorized(queryApiKey) == queryApiKey = apiKey


\* The id the next accepted connection gets.
NextId(d) ==
    /\ hpc[d] = "idle"
    /\ \A i, j \in 1..Len(DeviceOrder) :
          (i < j /\ DeviceOrder[j] = d) => hpc[DeviceOrder[i]] # "idle"

\* The key matches, the upgrade succeeds, the ClientInfo is built; the handler
\* is now blocked on `register <- client`.
Connect(d) ==
    /\ NextId(d)
    /\ hpc' = [hpc EXCEPT ![d] = "register"]
    /\ conn' = [conn EXCEPT ![d] = "open"]
    /\ UNCHANGED <<clients, store, clipboardLock, pendMsg, initCur, sent, hubLocals,
                   unregGo, ghosts>>
    /\ UNCHANGED <<hubStep, timing, dropped>>

\* handleConnections up to `register <- client` for a request carrying
\* queryApiKey: refused with 403 before the upgrade, or admitted under id d.
handleConnections(d, queryApiKey) ==
    IF Authorized(queryApiKey)
    THEN Connect(d) /\ UNCHANGED refusals
    ELSE /\ refusals' = refusals + 1
         /\ UNCHANGED <<clients, store, clipboardLock, hpc, pendMsg, initCur, conn, sent,
                        hubLocals, unregGo, ghosts, hubStep, timing, dropped>>

\* clipboardLock.RLock(); current := currentClip; clipboardLock.RUnlock()
InitRead(d) ==
    /\ hpc[d] = "initRead"
    /\ clipboardLock = ""
    /\ initCur' = [initCur EXCEPT ![d] = currentClip]
    /\ hpc' = [hpc EXCEPT ![d] = "initSend"]
    /\ UNCHANGED <<clients, store, clipboardLock, pendMsg, conn, sent, hubLocals,
                   unregGo, ghosts>>
    /\ UNCHANGED <<hubStep, timing, dropped>>

\* Initial frames in the opposite order: the history first, the value after it.
InitialFramesHistoryFirst(current, history) ==
    (IF Len(history) > 0
     THEN <<Marshal(BaseMessage("clipboard_history", "", "ClipboardHistoryData",
                                "", "", <<>>, history))>>
     ELSE <<>>)
    \o
    (IF current # ""
     THEN <<Marshal(BaseMessage("clipboard_update", "", "ClipboardUpdateData",
                                current, "", <<>>, <<>>))>>
     ELSE <<>>)

\* The frames handleConnections writes for the value `current` it read.
InitialFrames(current, history) ==
    (IF current # ""
     THEN <<Marshal(BaseMessage("clipboard_update", "", "ClipboardUpdateData",
                                current, "", <<>>, <<>>))>>
     ELSE <<>>)
    \o
    (IF Len(history) > 0
     THEN <<Marshal(BaseMessage("clipboard_history", "", "ClipboardHistoryData",
                                "", "", <<>>, history))>>
     ELSE <<>>)

\* if current != "" { write clipboard_update }; copy the history under
\* historyMutex; if len(historyCopy) > 0 { write clipboard_history }; then
\* readLoop starts.
InitSend(d) ==
    /\ hpc[d] = "initSend"
    /\ sent' = [sent EXCEPT ![d] =
                  IF WriteOk(d) THEN @ \o InitialFrames(initCur[d], clipboardHistory)
                  ELSE @]
    /\ hpc' = [hpc EXCEPT ![d] = "reading"]
    /\ UNCHANGED <<clients, store, clipboardLock, pendMsg, initCur, conn, hubLocals,
                   unregGo, ghosts>>
    /\ readDeadline' = [readDeadline EXCEPT ![d] = now + readWait]
    /\ UNCHANGED <<hubStep, now, pingDue, dropped>>

\* ---------------------------------------------------------------- readLoop

\* A read loop without the `currentClip != data.Content` test: every update is
\* stored and broadcast.
ReadClipboardUpdateAlways(d, frame) ==
    /\ frame.type = "clipboard_update"
    /\ clipboardLock = ""
    /\ currentClip' = frame.content
    /\ clipboardHistory' = PushHistory(clipboardHistory, frame.content)
    /\ pendMsg' = [pendMsg EXCEPT ![d] =
            BaseMessage("clipboard_update", d, "ClipboardUpdateData",
                        frame.content, "", <<>>, <<>>)]
    /\ hpc' = [hpc EXCEPT ![d] = "bcast"]
    /\ clipboardLock' = d
    /\ UNCHANGED <<clients, sent>>

\* A read loop that releases clipboardLock before it sends on the broadcast
\* channel: the store changes under the lock, the send waits without it.
ReadClipboardUpdateUnlocked(d, frame) ==
    /\ frame.type = "clipboard_update"
    /\ clipboardLock = ""
    /\ IF currentClip # frame.content
       THEN /\ currentClip' = frame.content
            /\ clipboardHistory' = PushHistory(clipboardHistory, frame.content)
            /\ pendMsg' = [pendMsg EXCEPT ![d] =
                    BaseMessage("clipboard_update", d, "ClipboardUpdateData",
                                frame.content, "", <<>>, <<>>)]
            /\ hpc' = [hpc EXCEPT ![d] = "bcast"]
            /\ clipboardLock' = ""
       ELSE UNCHANGED <<store, pendMsg, hpc, clipboardLock>>
    /\ UNCHANGED <<clients, sent>>

\* case "clipboard_update": under clipboardLock, change the store if the content
\* differs and then block on `broadcast <- broadcastMsg` with the lock held.
ReadClipboardUpdate(d, frame) ==
    /\ frame.type = "clipboard_update"
    /\ clipboardLock = ""
    /\ IF currentClip # frame.content
       THEN /\ currentClip' = frame.content
            /\ clipboardHistory' = PushHistory(clipboardHistory, frame.content)
            /\ pendMsg' = [pendMsg EXCEPT ![d] =
                    BaseMessage("clipboard_update", d, "ClipboardUpdateData",
                                frame.content, "", <<>>, <<>>)]
            /\ hpc' = [hpc EXCEPT ![d] = "bcast"]
            /\ clipboardLock' = d
       ELSE UNCHANGED <<store, pendMsg, hpc, clipboardLock>>
    /\ UNCHANGED <<clients, sent>>

\* A read loop that writes the list to every registered device.
ReadRequestDevicesToAll(d, frame) ==
    /\ frame.type = "request_devices"
    /\ sent' = [id \in Devices |->
                  IF id \in DOMAIN clients /\ WriteOk(id)
                  THEN Append(sent[id],
                              Marshal(BaseMessage("device_list", "", "DeviceListData",
                                                  "", "", deviceList, <<>>)))
                  ELSE sent[id]]
    /\ UNCHANGED <<clients, store, pendMsg, hpc, clipboardLock>>

\* case "request_devices": the list is written to the requester by the read loop.
ReadRequestDevices(d, frame) ==
    /\ frame.type = "request_devices"
    /\ sent' = Written(sent, d, Marshal(BaseMessage("device_list", "", "DeviceListData",
                                                    "", "", deviceList, <<>>)))
    /\ UNCHANGED <<clients, store, pendMsg, hpc, clipboardLock>>

\* case "file_offer", "file_ack": `broadcast <- msg` sends the message as it was
\* unmarshalled (msg.Data is still the generic map; `data` is a local copy).
ReadFileMsg(d, frame) ==
    /\ frame.type \in {"file_offer", "file_ack"}
    /\ pendMsg' = [pendMsg EXCEPT ![d] = Unmarshal(frame, d)]
    /\ hpc' = [hpc EXCEPT ![d] = "bcast"]
    /\ UNCHANGED <<clients, store, clipboardLock, sent>>

\* One successful conn.ReadMessage() of a text frame and its dispatch.
ReadFrame(d, frame) ==
    /\ hpc[d] = "reading"
    /\ conn[d] \in {"open", "broken"}
    /\ \/ ReadClipboardUpdate(d, frame)
       \/ ReadRequestDevices(d, frame)
       \/ ReadFileMsg(d, frame)
    /\ UNCHANGED <<initCur, conn, hubLocals, unregGo, ghosts>>
    /\ readDeadline' = [readDeadline EXCEPT ![d] = now + readWait]
    /\ UNCHANGED <<hubStep, now, pingDue, dropped>>

\* A text frame as it comes off the wire: json says whether the bytes are
\* well-formed JSON, data whether the "data" member has the shape its type
\* asks for (a clipboard_update whose content is a number is "mistyped").
Text(json, data, frame) ==
    [json |-> json, data |-> data, type |-> frame.type, content |-> frame.content,
     targetId |-> frame.targetId]

\* json.Unmarshal(p, &msg) returns no error.
UnmarshalOk(text) == text.json = "ok"

\* RemarshalData(msg.Data, &data) returns no error.
RemarshalOk(text) == text.data = "ok"

\* A read loop that takes every frame as decoded.
DecodesAlways(text) == TRUE

\* The frame gets past json.Unmarshal and, in the cases that decode msg.Data
\* (clipboard_update, file_offer, file_ack), past RemarshalData.
Decodes(text) ==
    /\ UnmarshalOk(text)
    /\ text.type \in {"clipboard_update", "file_offer", "file_ack"} => RemarshalOk(text)

\* One successful conn.ReadMessage() of a text frame: the deadline is re-armed,
\* then the frame is decoded and dispatched, or logged and dropped (`continue`,
\* or the else branch of its case).
ReadText(d, text) ==
    IF Decodes(text)
    THEN ReadFrame(d, [type |-> text.type, content |-> text.content,
                       targetId |-> text.targetId])
    ELSE /\ hpc[d] = "reading"
         /\ conn[d] \in {"open", "broken"}
         /\ readDeadline' = [readDeadline EXCEPT ![d] = now + readWait]
         /\ dropped' = [dropped EXCEPT ![d] = framesRead + 1]
         /\ UNCHANGED <<clients, store, clipboardLock, hpc, pendMsg, initCur, conn, sent,
                        hubLocals, unregGo, ghosts, hubStep, now, pingDue>>

\* Why conn.ReadMessage() returned an error.
ReadFaults == {"error", "deadline", "close", "toobig"}

\* ReadMessage fails (any fault; always on a closed connection): the loop breaks
\* and handleConnections blocks on `unregister <- client`.
ReadError(d, fault) ==
    /\ hpc[d] = "reading"
    /\ fault \in ReadFaults
    /\ hpc' = [hpc EXCEPT ![d] = "unregister"]
    /\ UNCHANGED <<clients, store, clipboardLock, pendMsg, initCur, conn, sent, hubLocals,
                   unregGo, ghosts>>
    /\ UNCHANGED <<hubStep, timing, dropped>>

\* The read deadline of a connection passes while its read loop waits in
\* conn.ReadMessage(): the read fails with a timeout.
ReadDeadlineExpired(d) ==
    /\ now >= readDeadline[d]
    /\ ReadError(d, "deadline")

\* listenWebSocketCmd's ping goroutine starts: ticker := time.NewTicker(pingPeriod).
StartPingLoop(d) ==
    /\ conn[d] = "open"
    /\ pingDue[d] = 0
    /\ pingDue' = [pingDue EXCEPT ![d] = now + pingPeriod]
    /\ UNCHANGED <<clients, store, clipboardLock, hpc, pendMsg, initCur, conn, sent,
                   hubLocals, unregGo, ghosts, hubStep, now, readDeadline, dropped>>

\* case <-ticker.C: the client writes a ping.  On the server the frame is
\* consumed inside conn.ReadMessage(), which answers it through the default
\* ping handler and goes on waiting for a data frame: ReadMessage does not
\* return, and neither line 272 nor the pong handler runs.
ClientPing(d) ==
    /\ conn[d] = "open"
    /\ pingDue[d] # 0
    /\ now = pingDue[d]
    /\ pingDue' = [pingDue EXCEPT ![d] = now + pingPeriod]
    /\ UNCHANGED <<clients, store, clipboardLock, hpc, pendMsg, initCur, conn, sent,
                   hubLocals, unregGo, ghosts, hubStep, now, readDeadline, dropped>>

\* Seconds per step of the clock: pongWait, readWait and pingPeriod are
\* multiples of it.
TickSeconds == 6

\* Time passes.  No admission is half-way (its steps take no time on this
\* scale), every live client has its ticker running and no ping due, and no
\* waiting read is past its deadline.
Tick(limit) ==
    /\ now < limit
    /\ \A d \in Devices :
          /\ hpc[d] \in {"idle", "reading", "unregister", "done"}
          /\ conn[d] = "open" => (pingDue[d] # 0 /\ now < pingDue[d])
          /\ hpc[d] = "reading" => now < readDeadline[d]
    /\ now' = now + TickSeconds
    /\ UNCHANGED <<clients, store, clipboardLock, hpc, pendMsg, initCur, conn, sent,
                   hubLocals, unregGo, ghosts, hubStep, readDeadline, pingDue, dropped>>

\* The peer or the network stops taking writes; from now on writes to d fail.
ConnBreak(d) ==
    /\ conn[d] = "open"
    /\ conn' = [conn EXCEPT ![d] = "broken"]
    /\ UNCHANGED <<clients, store, clipboardLock, hpc, pendMsg, initCur, sent, hubLocals,
                   unregGo, ghosts>>
    /\ UNCHANGED <<hubStep, timing, dropped>>

\* ------------------------------------------------------------------ runHub
\* Each case body of runHub's select is one step: while it runs the hub
\* receives nothing.  What a step of another goroutine sees of the registry
\* half-way through a case body, and writes that overlap in time, are left
\* to the line-by-line actions further down.

\* The clients of the snapshot that `message` is written to.
Targets(message, snapshot) ==
    {id \in snapshot : ~SkipSender(message, id) /\ ~targetted(message, id)}

\* A loop that gives up at a failed write: with a failing target in the
\* snapshot the others are not written.
RouteAbortOnError(log, message, snapshot) ==
    [id \in Devices |->
        IF /\ id \in Targets(message, snapshot)
           /\ \A other \in Targets(message, snapshot) : WriteOk(other)
        THEN Append(log[id], Marshal(message))
        ELSE log[id]]

\* The for loop over activeClients: one writeToClient per target.
Route(log, message, snapshot) ==
    [id \in Devices |->
        IF id \in Targets(message, snapshot) /\ WriteOk(id)
        THEN Append(log[id], Marshal(message))
        ELSE log[id]]

\* The targets whose write returned an error.
FailedWrites(message, snapshot) ==
    {id \in Targets(message, snapshot) : ~WriteOk(id)}

\* Whether some goroutine waits in `<-broadcast` while runHub executes a case
\* body: runHub's select is the only receiver of the channel, so none does.
BroadcastReceiverWaiting == FALSE

\* broadcastDeviceListUpdate, called by the hub goroutine itself: the list is
\* built from the registry `reg` and offered to the unbuffered broadcast
\* channel without blocking; with no receiver waiting the default case
\* drops it.  Yields the connections' logs afterwards.
broadcastDeviceListUpdate(log, reg) ==
    IF BroadcastReceiverWaiting
    THEN Route(log,
               BaseMessage("device_list", "", "DeviceListData", "", "",
                           [id \in DOMAIN reg |-> reg[id].Hostname], <<>>),
               DOMAIN reg)
    ELSE log

\* case client := <-register (rendezvous with the handler of d).
HubRegister(d) ==
    /\ hpc[d] = "register"
    /\ clients' = [id \in DOMAIN clients \cup {d} |->
                     IF id = d THEN [Conn |-> d, Hostname |-> Hostname(d)]
                     ELSE clients[id]]
    /\ hpc' = [hpc EXCEPT ![d] = "initRead"]
    /\ sent' = broadcastDeviceListUpdate(sent, clients')
    /\ UNCHANGED <<store, clipboardLock, pendMsg, initCur, conn, hubLocals,
                   unregGo, ghosts>>
    /\ UNCHANGED <<hubStep, timing, dropped>>

\* An unregister case that closes the connection without looking the client
\* up in the registry.
unregisterUnchecked(d) ==
    /\ unregSeen' = [unregSeen EXCEPT ![d] = @ + 1]
    /\ clients' = [id \in DOMAIN clients \ {d} |-> clients[id]]
    /\ conn' = [conn EXCEPT ![d] = "closed"]
    /\ closeCount' = [closeCount EXCEPT ![d] = @ + 1]
    /\ delCount' = [delCount EXCEPT ![d] = @ + (IF d \in DOMAIN clients THEN 1 ELSE 0)]
    /\ sent' = sent

\* An unregister case that closes the connection and leaves the registry alone.
unregisterNoDelete(d) ==
    /\ unregSeen' = [unregSeen EXCEPT ![d] = @ + 1]
    /\ conn' = [conn EXCEPT ![d] = "closed"]
    /\ closeCount' = [closeCount EXCEPT ![d] = @ + 1]
    /\ UNCHANGED <<clients, delCount, sent>>

\* The body of case client := <-unregister for a request naming client d.
unregister(d) ==
    /\ unregSeen' = [unregSeen EXCEPT ![d] = @ + 1]
    /\ IF d \in DOMAIN clients /\ clients[d].Conn = d
       THEN /\ clients' = [id \in DOMAIN clients \ {d} |-> clients[id]]
            /\ conn' = [conn EXCEPT ![d] = "closed"]
            /\ closeCount' = [closeCount EXCEPT ![d] = @ + 1]
            /\ delCount' = [delCount EXCEPT ![d] = @ + 1]
       ELSE UNCHANGED <<clients, conn, closeCount, delCount>>
    /\ sent' = broadcastDeviceListUpdate(sent, clients')

\* The hub receives the `unregister <- client` of handleConnections.
HubUnregister(d) ==
    /\ hpc[d] = "unregister"
    /\ unregister(d)
    /\ hpc' = [hpc EXCEPT ![d] = "done"]
    /\ UNCHANGED <<store, clipboardLock, pendMsg, initCur, hubLocals, unregGo>>
    /\ UNCHANGED <<hubStep, timing, dropped>>

\* The goroutine of line 151 runs its select while the hub waits in its own:
\* the hub receives the request.
GoUnregisterSend(d) ==
    /\ unregGo[d] > 0
    /\ unregister(d)
    /\ unregGo' = [unregGo EXCEPT ![d] = @ - 1]
    /\ UNCHANGED <<store, clipboardLock, hpc, pendMsg, initCur, hubLocals>>
    /\ UNCHANGED <<hubStep, timing, dropped>>

\* The goroutine of line 151 runs its select while the hub is not waiting to
\* receive (it is busy, or between two iterations): the default case drops it.
GoUnregisterDrop(d) ==
    /\ unregGo[d] > 0
    /\ unregGo' = [unregGo EXCEPT ![d] = @ - 1]
    /\ UNCHANGED <<clients, store, clipboardLock, hpc, pendMsg, initCur, conn, sent,
                   hubLocals, ghosts>>
    /\ UNCHANGED <<hubStep, timing, dropped>>

\* case message := <-broadcast (rendezvous with the read loop of d, which then
\* releases clipboardLock if it holds it): snapshot under RLock, then the
\* writes, and one goroutine per failed write.
HubBroadcast(d) ==
    /\ hpc[d] = "bcast"
    /\ hubMsg' = pendMsg[d]
    /\ activeClients' = DOMAIN clients
    /\ sent' = Route(sent, pendMsg[d], DOMAIN clients)
    /\ hubFailed' = FailedWrites(pendMsg[d], DOMAIN clients)
    /\ unregGo' = [id \in Devices |->
                     IF id \in FailedWrites(pendMsg[d], DOMAIN clients)
                     THEN unregGo[id] + 1 ELSE unregGo[id]]
    /\ pendMsg' = [pendMsg EXCEPT ![d] = NoMsg]
    /\ hpc' = [hpc EXCEPT ![d] = "reading"]
    /\ clipboardLock' = IF clipboardLock = d THEN "" ELSE clipboardLock
    /\ UNCHANGED <<clients, store, initCur, conn, ghosts>>
    /\ UNCHANGED <<hubStep, timing, dropped>>

\* ------------------------------------------------- runHub, line by line
\* The same goroutines with the case bodies of runHub, the initial writes of
\* handleConnections and the request_devices answer of readLoop taken apart:
\* a channel receive, a lock, the work under it and each network write are
\* steps of their own, and a write lasts from its begin to its end.

\* case client := <-register: the receive.  The handler's send returns and the
\* handler goes on; runHub has not locked the registry yet.
hubTakeRegister(d) ==
    /\ hubPc = "select"
    /\ hpc[d] = "register"
    /\ hubPc' = "register"
    /\ hubClient' = d
    /\ hpc' = [hpc EXCEPT ![d] = "initRead"]
    /\ UNCHANGED <<clients, store, clipboardLock, pendMsg, initCur, conn, sent, hubLocals,
                   unregGo, ghosts, hubTodo, writing, mutexHeld, timing, dropped>>

\* case client := <-unregister: the receive of the handler's send.
hubTakeUnregister(d) ==
    /\ hubPc = "select"
    /\ hpc[d] = "unregister"
    /\ hubPc' = "unregister"
    /\ hubClient' = d
    /\ hpc' = [hpc EXCEPT ![d] = "done"]
    /\ UNCHANGED <<clients, store, clipboardLock, pendMsg, initCur, conn, sent, hubLocals,
                   unregGo, ghosts, hubTodo, writing, mutexHeld, timing, dropped>>

\* mutex.Lock() of the register and unregister cases.
hubLock ==
    /\ hubPc \in {"register", "unregister"}
    /\ mutexHeld = ""
    /\ mutexHeld' = "W"
    /\ hubPc' = IF hubPc = "register" THEN "registerLocked" ELSE "unregisterLocked"
    /\ UNCHANGED <<clients, store, clipboardLock, hpc, pendMsg, initCur, conn, sent,
                   hubLocals, unregGo, ghosts, hubClient, hubTodo, writing, timing, dropped>>

\* A register case whose device-list send waits for a receiver: runHub is the
\* only receiver of the broadcast channel, so the send never returns.
hubRegisterBodyBlockingSend ==
    /\ hubPc = "registerLocked"
    /\ clients' = [id \in DOMAIN clients \cup {hubClient} |->
                     IF id = hubClient
                     THEN [Conn |-> hubClient, Hostname |-> Hostname(hubClient)]
                     ELSE clients[id]]
    /\ mutexHeld' = ""
    /\ hubPc' = "deviceListSend"
    /\ UNCHANGED <<store, clipboardLock, hpc, pendMsg, initCur, conn, sent, hubLocals,
                   unregGo, ghosts, hubClient, hubTodo, writing, timing, dropped>>

\* clients[client.ID] = client; mutex.Unlock(); broadcastDeviceListUpdate().
hubRegisterBody ==
    /\ hubPc = "registerLocked"
    /\ clients' = [id \in DOMAIN clients \cup {hubClient} |->
                     IF id = hubClient
                     THEN [Conn |-> hubClient, Hostname |-> Hostname(hubClient)]
                     ELSE clients[id]]
    /\ mutexHeld' = ""
    /\ sent' = broadcastDeviceListUpdate(sent, clients')
    /\ hubPc' = "select"
    /\ hubClient' = ""
    /\ UNCHANGED <<store, clipboardLock, hpc, pendMsg, initCur, conn, hubLocals, unregGo,
                   ghosts, hubTodo, writing, timing, dropped>>

\* The locked body of the unregister case, mutex.Unlock() and
\* broadcastDeviceListUpdate().
hubUnregisterBody ==
    /\ hubPc = "unregisterLocked"
    /\ unregister(hubClient)
    /\ mutexHeld' = ""
    /\ hubPc' = "select"
    /\ hubClient' = ""
    /\ UNCHANGED <<store, clipboardLock, hpc, pendMsg, initCur, hubLocals, unregGo,
                   hubTodo, writing, timing, dropped>>

\* case message := <-broadcast: the receive.  The read loop's send returns
\* and the loop releases clipboardLock if it holds it.
hubTakeBroadcast(d) ==
    /\ hubPc = "select"
    /\ hpc[d] = "bcast"
    /\ hubMsg' = pendMsg[d]
    /\ pendMsg' = [pendMsg EXCEPT ![d] = NoMsg]
    /\ hpc' = [hpc EXCEPT ![d] = "reading"]
    /\ clipboardLock' = IF clipboardLock = d THEN "" ELSE clipboardLock
    /\ hubPc' = "broadcast"
    /\ UNCHANGED <<clients, store, initCur, conn, sent, activeClients, hubFailed, unregGo,
                   ghosts, hubClient, hubTodo, writing, mutexHeld, timing, dropped>>

\* mutex.RLock() of the broadcast case.
hubRLock ==
    /\ hubPc = "broadcast"
    /\ mutexHeld = ""
    /\ mutexHeld' = "R"
    /\ hubPc' = "snapshot"
    /\ UNCHANGED <<clients, store, clipboardLock, hpc, pendMsg, initCur, conn, sent,
                   hubLocals, unregGo, ghosts, hubClient, hubTodo, writing, timing, dropped>>

\* A broadcast case that keeps the read lock while it writes.
hubSnapshotKeepsLock ==
    /\ hubPc = "snapshot"
    /\ activeClients' = DOMAIN clients
    /\ mutexHeld' = "R"
    /\ hubTodo' = Targets(hubMsg, DOMAIN clients)
    /\ hubFailed' = {}
    /\ hubPc' = IF Targets(hubMsg, DOMAIN clients) = {} THEN "select" ELSE "loop"
    /\ UNCHANGED <<clients, store, clipboardLock, hpc, pendMsg, initCur, conn, sent,
                   hubMsg, unregGo, ghosts, hubClient, writing, timing, dropped>>

\* The copy of the registry into activeClients and mutex.RUnlock(); the
\* clients the loop skips (sender, not the target) are left out of hubTodo.
hubSnapshot ==
    /\ hubPc = "snapshot"
    /\ activeClients' = DOMAIN clients
    /\ mutexHeld' = ""
    /\ hubTodo' = Targets(hubMsg, DOMAIN clients)
    /\ hubFailed' = {}
    /\ hubPc' = IF Targets(hubMsg, DOMAIN clients) = {} THEN "select" ELSE "loop"
    /\ UNCHANGED <<clients, store, clipboardLock, hpc, pendMsg, initCur, conn, sent,
                   hubMsg, unregGo, ghosts, hubClient, writing, timing, dropped>>

\* The loop reaches client id: writeToClient(client, ...) begins.
hubWriteBegin(id) ==
    /\ hubPc = "loop"
    /\ id \in hubTodo
    /\ hubClient' = id
    /\ writing' = [writing EXCEPT ![id] = @ \cup {"runHub"}]
    /\ hubPc' = "write"
    /\ UNCHANGED <<clients, store, clipboardLock, hpc, pendMsg, initCur, conn, sent,
                   hubLocals, unregGo, ghosts, hubTodo, mutexHeld, timing, dropped>>

\* writeToClient returns: the frame is in the connection's log, or the write
\* failed and the goroutine of line 151 is started.
hubWriteEnd ==
    /\ hubPc = "write"
    /\ sent' = Written(sent, hubClient, Marshal(hubMsg))
    /\ hubFailed' = IF WriteOk(hubClient) THEN hubFailed ELSE hubFailed \cup {hubClient}
    /\ unregGo' = [unregGo EXCEPT ![hubClient] = IF WriteOk(hubClient) THEN @ ELSE @ + 1]
    /\ writing' = [writing EXCEPT ![hubClient] = @ \ {"runHub"}]
    /\ hubTodo' = hubTodo \ {hubClient}
    /\ hubPc' = IF hubTodo \ {hubClient} = {} THEN "select" ELSE "loop"
    /\ hubClient' = ""
    /\ UNCHANGED <<clients, store, clipboardLock, hpc, pendMsg, initCur, conn, hubMsg,
                   activeClients, ghosts, mutexHeld, timing, dropped>>

\* handleConnections: `if current != ""`, and the first writeToClient begins.
InitClip(d) ==
    /\ hpc[d] = "initSend"
    /\ IF initCur[d] # ""
       THEN /\ writing' = [writing EXCEPT ![d] = @ \cup {"handleConnections"}]
            /\ hpc' = [hpc EXCEPT ![d] = "initClipWrite"]
       ELSE /\ hpc' = [hpc EXCEPT ![d] = "initHistory"]
            /\ UNCHANGED writing
    /\ UNCHANGED <<clients, store, clipboardLock, pendMsg, initCur, conn, sent, hubLocals,
                   unregGo, ghosts, hubPc, hubClient, hubTodo, mutexHeld, timing, dropped>>

\* The first writeToClient of handleConnections returns.
InitClipWritten(d) ==
    /\ hpc[d] = "initClipWrite"
    /\ sent' = [sent EXCEPT ![d] =
                  IF WriteOk(d) THEN @ \o InitialFrames(initCur[d], <<>>) ELSE @]
    /\ writing' = [writing EXCEPT ![d] = @ \ {"handleConnections"}]
    /\ hpc' = [hpc EXCEPT ![d] = "initHistory"]
    /\ UNCHANGED <<clients, store, clipboardLock, pendMsg, initCur, conn, hubLocals,
                   unregGo, ghosts, hubPc, hubClient, hubTodo, mutexHeld, timing, dropped>>

\* The history is copied under historyMutex; `if len(historyCopy) > 0` the
\* second writeToClient begins, else readLoop starts and arms the deadline.
InitHistory(d) ==
    /\ hpc[d] = "initHistory"
    /\ IF Len(clipboardHistory) > 0
       THEN /\ pendMsg' = [pendMsg EXCEPT ![d] = InitialFrames("", clipboardHistory)[1]]
            /\ writing' = [writing EXCEPT ![d] = @ \cup {"handleConnections"}]
            /\ hpc' = [hpc EXCEPT ![d] = "initHistoryWrite"]
            /\ UNCHANGED readDeadline
       ELSE /\ hpc' = [hpc EXCEPT ![d] = "reading"]
            /\ readDeadline' = [readDeadline EXCEPT ![d] = now + readWait]
            /\ UNCHANGED <<pendMsg, writing>>
    /\ UNCHANGED <<clients, store, clipboardLock, initCur, conn, sent, hubLocals, unregGo,
                   ghosts, hubPc, hubClient, hubTodo, mutexHeld, now, pingDue, dropped>>

\* The second writeToClient of handleConnections returns; readLoop starts.
InitHistoryWritten(d) ==
    /\ hpc[d] = "initHistoryWrite"
    /\ sent' = Written(sent, d, pendMsg[d])
    /\ pendMsg' = [pendMsg EXCEPT ![d] = NoMsg]
    /\ writing' = [writing EXCEPT ![d] = @ \ {"handleConnections"}]
    /\ hpc' = [hpc EXCEPT ![d] = "reading"]
    /\ readDeadline' = [readDeadline EXCEPT ![d] = now + readWait]
    /\ UNCHANGED <<clients, store, clipboardLock, initCur, conn, hubLocals, unregGo,
                   ghosts, hubPc, hubClient, hubTodo, mutexHeld, now, pingDue, dropped>>

\* readLoop, case "request_devices": a frame is read, the list is copied
\* under mutex.RLock(), and writeToClient begins.
ReadRequestSnapshot(d) ==
    /\ hpc[d] = "reading"
    /\ conn[d] \in {"open", "broken"}
    /\ mutexHeld # "W"
    /\ readDeadline' = [readDeadline EXCEPT ![d] = now + readWait]
    /\ pendMsg' = [pendMsg EXCEPT ![d] =
                     BaseMessage("device_list", "", "DeviceListData", "", "",
                                 deviceList, <<>>)]
    /\ writing' = [writing EXCEPT ![d] = @ \cup {"readLoop"}]
    /\ hpc' = [hpc EXCEPT ![d] = "respond"]
    /\ UNCHANGED <<clients, store, clipboardLock, initCur, conn, sent, hubLocals, unregGo,
                   ghosts, hubPc, hubClient, hubTodo, mutexHeld, now, pingDue, dropped>>

\* The writeToClient of the request_devices case returns.
ReadRequestWritten(d) ==
    /\ hpc[d] = "respond"
    /\ sent' = Written(sent, d, Marshal(pendMsg[d]))
    /\ pendMsg' = [pendMsg EXCEPT ![d] = NoMsg]
    /\ writing' = [writing EXCEPT ![d] = @ \ {"readLoop"}]
    /\ hpc' = [hpc EXCEPT ![d] = "reading"]
    /\ UNCHANGED <<clients, store, clipboardLock, initCur, conn, hubLocals, unregGo,
                   ghosts, hubPc, hubClient, hubTodo, mutexHeld, timing, dropped>>

\* ------------------------------------------------------------ client agent
\* Bubble Tea runs every tea.Cmd in a goroutine of its own and hands the
\* tea.Msg it returns to Model.Update; Update runs one message at a time.

\* main: tea.NewProgram(initialModel) copies the Model value into the program,
\* and `initialModel.programRef = p` then sets the field of main's own copy:
\* the Model that Update works on keeps programRef nil.
programRef == "nil"

\* ReceivedServerMsg{Msg}: status holds Msg.Type, content the clipboard content.
ReceivedServerMsg(type, content) ==
    TeaMsg("ReceivedServerMsg", type, "nil", "nil", content, FALSE)

\* Frames the server may send to the client.
ServerFrames ==
    {[type |-> "device_list", content |-> ""]}
    \cup [type : {"clipboard_update"}, content : Contents]

\* p.Send(msg) in the read goroutine, p being the programRef given to
\* listenWebSocketCmd: on a nil *tea.Program the call dereferences nil and the
\* panic ends the process.
ProgramSend(msg) ==
    IF programRef = "nil"
    THEN crashed' = TRUE /\ UNCHANGED inbox
    ELSE inbox' = inbox (+) SetToBag({msg}) /\ UNCHANGED crashed

\* connectCmd runs: the dial fails, or it succeeds and a cancellable context
\* is made for the connection.
RunConnect(ok) ==
    /\ UNCHANGED <<histList, offerState, listenCtx, wireClip>>
    /\ ~crashed
    /\ BagIn(Cmd("connectCmd", "nil", ""), cmds)
    /\ cmds' = cmds (-) SetToBag({Cmd("connectCmd", "nil", "")})
    /\ inbox' = inbox (+) SetToBag({
            IF ok THEN ConnectionStatusMsg("Connected", "nil", "conn")
            ELSE ConnectionStatusMsg("Disconnected", "dial failed", "nil")})
    /\ UNCHANGED <<connectedState, syncEnabled, lastError, wsConn, wsCtxCancel,
                   lastSentClip, lastRcvdClip, ctxCancelled, listening, crashed,
                   osClipboard, cliSent>>

\* Model.Update, case ConnectionStatusMsg.
UpdateConnectionStatus(msg) ==
    /\ UNCHANGED <<histList, offerState, listenCtx, wireClip>>
    /\ ~crashed
    /\ BagIn(msg, inbox)
    /\ msg.kind = "ConnectionStatusMsg"
    /\ inbox' = inbox (-) SetToBag({msg})
    /\ connectedState' = msg.status
    /\ lastError' = msg.err
    /\ IF msg.status = "Connected" /\ msg.conn # "nil"
       THEN /\ wsConn' = msg.conn
            /\ wsCtxCancel' = "cancel"
            /\ cmds' = cmds (+) SetToBag({Cmd("listenWebSocketCmd", msg.conn, "")})
                            (+) SetToBag({Cmd("checkLocalClipboardCmd", "nil", lastSentClip)})
                            (+) SetToBag({Cmd("sendWebsocketMessageCmd", msg.conn,
                                              "request_devices")})
            /\ UNCHANGED ctxCancelled
       ELSE /\ ctxCancelled' = (ctxCancelled \/ wsCtxCancel # "nil")
            /\ wsCtxCancel' = "nil"
            /\ wsConn' = "nil"
            /\ UNCHANGED cmds
    /\ UNCHANGED <<syncEnabled, lastSentClip, lastRcvdClip, listening, crashed,
                   osClipboard, cliSent>>

\* The context connectCmd makes for the connection (its cancel func goes to
\* wsCtxCancel) and the context Update hands to listenWebSocketCmd.
ConnCtx == "connCtx"

ListenCtxArg == "Background"

\* listenWebSocketCmd runs: it starts the read goroutine (and the ping
\* goroutine) on the context it was given, context.Background().
RunListen ==
    /\ listenCtx' = ListenCtxArg
    /\ UNCHANGED <<histList, offerState, wireClip>>
    /\ ~crashed
    /\ BagIn(Cmd("listenWebSocketCmd", "conn", ""), cmds)
    /\ cmds' = cmds (-) SetToBag({Cmd("listenWebSocketCmd", "conn", "")})
    /\ listening' = TRUE
    /\ UNCHANGED <<connectedState, syncEnabled, lastError, wsConn, wsCtxCancel,
                   lastSentClip, lastRcvdClip, inbox, ctxCancelled, crashed,
                   osClipboard, cliSent>>

\* The read goroutine: conn.ReadMessage() returns a text frame and the parsed
\* message is sent to the program.
ListenerReadFrame(frame) ==
    /\ wireClip' = IF frame.type = "clipboard_update" THEN frame.content ELSE wireClip
    /\ UNCHANGED <<histList, offerState, listenCtx>>
    /\ ~crashed
    /\ listening
    /\ ProgramSend(ReceivedServerMsg(frame.type, frame.content))
    /\ UNCHANGED <<connectedState, syncEnabled, lastError, wsConn, wsCtxCancel,
                   lastSentClip, lastRcvdClip, cmds, ctxCancelled, listening,
                   osClipboard, cliSent>>

\* The read goroutine: conn.ReadMessage() fails (error, close, deadline); the
\* goroutine reports Disconnected to the program and returns.
ListenerReadError(err) ==
    /\ UNCHANGED <<histList, offerState, listenCtx, wireClip>>
    /\ ~crashed
    /\ listening
    /\ ProgramSend(ConnectionStatusMsg("Disconnected", err, "nil"))
    /\ listening' = FALSE
    /\ UNCHANGED <<connectedState, syncEnabled, lastError, wsConn, wsCtxCancel,
                   lastSentClip, lastRcvdClip, cmds, ctxCancelled, osClipboard,
                   cliSent>>

\* checkLocalClipboardCmd(lastContent), run at once or by the 2 s tick.
CheckResult(lastContent, readOk) ==
    IF ~readOk THEN LocalClipboardCheckedMsg("", FALSE, "read failed")
    ELSE IF osClipboard # lastContent
         THEN LocalClipboardCheckedMsg(osClipboard, TRUE, "nil")
         ELSE LocalClipboardCheckedMsg("", FALSE, "nil")

RunCheck(lastContent, readOk) ==
    /\ UNCHANGED <<histList, offerState, listenCtx, wireClip>>
    /\ ~crashed
    /\ BagIn(Cmd("checkLocalClipboardCmd", "nil", lastContent), cmds)
    /\ cmds' = cmds (-) SetToBag({Cmd("checkLocalClipboardCmd", "nil", lastContent)})
    /\ inbox' = inbox (+) SetToBag({CheckResult(lastContent, readOk)})
    /\ UNCHANGED <<connectedState, syncEnabled, lastError, wsConn, wsCtxCancel,
                   lastSentClip, lastRcvdClip, ctxCancelled, listening, crashed,
                   osClipboard, cliSent>>

\* An Update that does not compare the value read with lastRcvdClip.
UpdateLocalClipboardCheckedNoEchoTest(msg) ==
    /\ UNCHANGED <<histList, offerState, listenCtx, wireClip>>
    /\ ~crashed
    /\ BagIn(msg, inbox)
    /\ msg.kind = "LocalClipboardCheckedMsg"
    /\ inbox' = inbox (-) SetToBag({msg})
    /\ IF connectedState # "Connected" \/ msg.err # "nil"
       THEN UNCHANGED <<lastSentClip, cmds>>
       ELSE IF syncEnabled /\ msg.changed
            THEN /\ lastSentClip' = msg.content
                 /\ cmds' = cmds (+) SetToBag({Cmd("sendWebsocketMessageCmd", wsConn,
                                                   msg.content)})
                                 (+) SetToBag({Cmd("checkLocalClipboardCmd", "nil",
                                                   msg.content)})
            ELSE /\ UNCHANGED lastSentClip
                 /\ cmds' = cmds (+) SetToBag({Cmd("checkLocalClipboardCmd", "nil",
                                                   lastSentClip)})
    /\ UNCHANGED <<connectedState, syncEnabled, lastError, wsConn, wsCtxCancel,
                   lastRcvdClip, ctxCancelled, listening, crashed, osClipboard, cliSent>>

\* Model.Update, case LocalClipboardCheckedMsg.
UpdateLocalClipboardChecked(msg) ==
    /\ UNCHANGED <<histList, offerState, listenCtx, wireClip>>
    /\ ~crashed
    /\ BagIn(msg, inbox)
    /\ msg.kind = "LocalClipboardCheckedMsg"
    /\ inbox' = inbox (-) SetToBag({msg})
    /\ IF connectedState # "Connected" \/ msg.err # "nil"
       THEN UNCHANGED <<lastSentClip, cmds>>
       ELSE IF syncEnabled /\ msg.changed /\ msg.content # lastRcvdClip
            THEN /\ lastSentClip' = msg.content
                 /\ cmds' = cmds (+) SetToBag({Cmd("sendWebsocketMessageCmd", wsConn,
                                                   msg.content)})
                                 (+) SetToBag({Cmd("checkLocalClipboardCmd", "nil",
                                                   msg.content)})
            ELSE /\ UNCHANGED lastSentClip
                 /\ cmds' = cmds (+) SetToBag({Cmd("checkLocalClipboardCmd", "nil",
                                                   lastSentClip)})
    /\ UNCHANGED <<connectedState, syncEnabled, lastError, wsConn, wsCtxCancel,
                   lastRcvdClip, ctxCancelled, listening, crashed, osClipboard, cliSent>>

\* sendWebsocketMessageCmd(conn, message) runs; arg is "request_devices" or the
\* content of a clipboard_update.
RunSend(cmd, writeOk) ==
    /\ UNCHANGED <<histList, offerState, listenCtx, wireClip>>
    /\ ~crashed
    /\ BagIn(cmd, cmds)
    /\ cmd.name = "sendWebsocketMessageCmd"
    /\ cmds' = cmds (-) SetToBag({cmd})
    /\ IF cmd.conn = "nil"
       THEN /\ inbox' = inbox (+) SetToBag({ErrorMsg("cannot send: not connected")})
            /\ UNCHANGED cliSent
       ELSE IF writeOk
            THEN /\ cliSent' = Append(cliSent, cmd.arg)
                 /\ UNCHANGED inbox
            ELSE /\ inbox' = inbox (+) SetToBag({ErrorMsg("websocket write failed")})
                 /\ UNCHANGED cliSent
    /\ UNCHANGED <<connectedState, syncEnabled, lastError, wsConn, wsCtxCancel,
                   lastSentClip, lastRcvdClip, ctxCancelled, listening, crashed,
                   osClipboard>>

\* Model.Update, case ErrorMsg.
UpdateError(msg) ==
    /\ UNCHANGED <<histList, offerState, listenCtx, wireClip>>
    /\ ~crashed
    /\ BagIn(msg, inbox)
    /\ msg.kind = "ErrorMsg"
    /\ inbox' = inbox (-) SetToBag({msg})
    /\ lastError' = msg.err
    /\ UNCHANGED <<connectedState, syncEnabled, wsConn, wsCtxCancel, lastSentClip,
                   lastRcvdClip, cmds, ctxCancelled, listening, crashed, osClipboard,
                   cliSent>>

\* Model.Update, case tea.KeyMsg matching keys.ToggleSync.
KeyToggleSync ==
    /\ UNCHANGED <<histList, offerState, listenCtx, wireClip>>
    /\ ~crashed
    /\ syncEnabled' = ~syncEnabled
    /\ UNCHANGED <<connectedState, lastError, wsConn, wsCtxCancel, lastSentClip,
                   lastRcvdClip, cmds, inbox, ctxCancelled, listening, crashed,
                   osClipboard, cliSent>>

\* The local user copies `content`.
UserCopy(content) ==
    /\ UNCHANGED <<histList, offerState, listenCtx, wireClip>>
    /\ osClipboard' = content
    /\ UNCHANGED <<connectedState, syncEnabled, lastError, wsConn, wsCtxCancel,
                   lastSentClip, lastRcvdClip, cmds, inbox, ctxCancelled, listening,
                   crashed, cliSent>>

\* The tea.Cmd Update returns for a file_ack: sendWebsocketMessageCmd(conn, ack)
\* with ack.Data = FileAckData{Filename, Allow, SourceID}.
AckCmd(ws, filename, allow, sourceId) ==
    [name |-> "sendWebsocketMessageCmd", conn |-> ws, arg |-> "file_ack",
     filename |-> filename, allow |-> allow, sourceId |-> sourceId]

\* The file offers a server message may carry: sender, filename, filesize.
OfferSenders == {"d1", "d2"}

OfferFiles == {"f", "g"}

OfferSizes == {1, 2}

\* An Update that writes every inbound value to the OS clipboard.
UpdateReceivedClipboardUpdateAlways(content) ==
    /\ ~crashed
    /\ lastRcvdClip' = content
    /\ histList' = (LET h == <<content>> \o histList
                    IN  IF Len(h) > maxHistorySize THEN SubSeq(h, 1, Len(h) - 1) ELSE h)
    /\ cmds' = IF syncEnabled
               THEN cmds (+) SetToBag({Cmd("writeToClipboardCmd", "nil", content)})
               ELSE cmds
    /\ UNCHANGED <<connectedState, syncEnabled, lastError, wsConn, wsCtxCancel,
                   lastSentClip, inbox, ctxCancelled, listening, crashed, osClipboard,
                   cliSent, offerState, listenCtx, wireClip>>

\* Model.Update, case ReceivedServerMsg, "clipboard_update" with data.Content.
UpdateReceivedClipboardUpdate(content) ==
    /\ ~crashed
    /\ lastRcvdClip' = content
    /\ histList' = (LET h == <<content>> \o histList
                    IN  IF Len(h) > maxHistorySize THEN SubSeq(h, 1, Len(h) - 1) ELSE h)
    /\ cmds' = IF syncEnabled /\ content # lastSentClip
               THEN cmds (+) SetToBag({Cmd("writeToClipboardCmd", "nil", content)})
               ELSE cmds
    /\ UNCHANGED <<connectedState, syncEnabled, lastError, wsConn, wsCtxCancel,
                   lastSentClip, inbox, ctxCancelled, listening, crashed, osClipboard,
                   cliSent, offerState, listenCtx, wireClip>>

\* Model.Update, case ReceivedServerMsg, "file_offer" from senderId.
UpdateReceivedFileOffer(senderId, filename, filesize) ==
    /\ ~crashed
    /\ incomingFileOffer' = <<[filename |-> filename, filesize |-> filesize]>>
    /\ offeringClientID' = senderId
    /\ UNCHANGED <<connectedState, syncEnabled, lastError, wsConn, wsCtxCancel,
                   lastSentClip, lastRcvdClip, cmds, inbox, ctxCancelled, listening,
                   crashed, osClipboard, cliSent, histList, listenCtx, wireClip>>

\* An answer that leaves the offer pending.
FileAnswerKeepsOffer(allow) ==
    /\ ~crashed
    /\ IF incomingFileOffer # <<>>
       THEN cmds' = cmds (+) SetToBag({AckCmd(wsConn, incomingFileOffer[1].filename,
                                              allow, offeringClientID)})
       ELSE UNCHANGED cmds
    /\ UNCHANGED <<connectedState, syncEnabled, lastError, wsConn, wsCtxCancel,
                   lastSentClip, lastRcvdClip, inbox, ctxCancelled, listening, crashed,
                   osClipboard, cliSent, histList, offerState, listenCtx, wireClip>>

\* The body shared by the AcceptFile (allow) and RejectFile (~allow) keys.
FileAnswer(allow) ==
    /\ ~crashed
    /\ IF incomingFileOffer # <<>>
       THEN /\ cmds' = cmds (+) SetToBag({AckCmd(wsConn, incomingFileOffer[1].filename,
                                                 allow, offeringClientID)})
            /\ incomingFileOffer' = <<>>
       ELSE UNCHANGED <<cmds, incomingFileOffer>>
    /\ UNCHANGED <<connectedState, syncEnabled, lastError, wsConn, wsCtxCancel,
                   lastSentClip, lastRcvdClip, inbox, ctxCancelled, listening, crashed,
                   osClipboard, cliSent, histList, offeringClientID, listenCtx, wireClip>>

\* Model.Update, case tea.KeyMsg matching keys.AcceptFile.
KeyAcceptFile == FileAnswer(TRUE)

\* Model.Update, case tea.KeyMsg matching keys.RejectFile.
KeyRejectFile == FileAnswer(FALSE)

\* writeToClipboardCmd(content) runs: clipboard.WriteAll, whose failure comes
\* back as an ErrorMsg.
RunWrite(content, writeOk) ==
    /\ ~crashed
    /\ BagIn(Cmd("writeToClipboardCmd", "nil", content), cmds)
    /\ cmds' = cmds (-) SetToBag({Cmd("writeToClipboardCmd", "nil", content)})
    /\ IF writeOk
       THEN osClipboard' = content /\ UNCHANGED inbox
       ELSE /\ inbox' = inbox (+) SetToBag({ErrorMsg("clipboard write failed")})
            /\ UNCHANGED osClipboard
    /\ UNCHANGED <<connectedState, syncEnabled, lastError, wsConn, wsCtxCancel,
                   lastSentClip, lastRcvdClip, ctxCancelled, listening, crashed,
                   cliSent, histList, offerState, listenCtx, wireClip>>

\* ------------------------------------------------------------ specification

\* Spec: clipboard_update and request_devices traffic on healthy connections.
ClipFrames == {f \in Frames : f.type \in {"clipboard_update", "request_devices"}}

Next ==
    \/ \E d \in Devices : Connect(d) /\ UNCHANGED <<budget, cvars>>
    \/ \E d \in Devices : HubRegister(d) /\ UNCHANGED <<budget, cvars>>
    \/ \E d \in Devices : InitRead(d) /\ UNCHANGED <<budget, cvars>>
    \/ \E d \in Devices : InitSend(d) /\ UNCHANGED <<budget, cvars>>
    \/ \E d \in Devices, frame \in ClipFrames :
          /\ framesRead < MaxFrames
          /\ ReadFrame(d, frame)
          /\ framesRead' = framesRead + 1
          /\ UNCHANGED <<faults, refusals, cvars>>
    \/ \E d \in Devices : HubBroadcast(d) /\ UNCHANGED <<budget, cvars>>

Spec == Init /\ [][Next]_vars

\* SpecFile: file_offer and file_ack traffic on healthy connections.
FileFrames == {f \in Frames : f.type \in {"file_offer", "file_ack"}}

NextFile ==
    \/ \E d \in Devices : Connect(d) /\ UNCHANGED <<budget, cvars>>
    \/ \E d \in Devices : HubRegister(d) /\ UNCHANGED <<budget, cvars>>
    \/ \E d \in Devices : InitRead(d) /\ UNCHANGED <<budget, cvars>>
    \/ \E d \in Devices : InitSend(d) /\ UNCHANGED <<budget, cvars>>
    \/ \E d \in Devices, frame \in FileFrames :
          /\ framesRead < MaxFileFrames
          /\ ReadFrame(d, frame)
          /\ framesRead' = framesRead + 1
          /\ UNCHANGED <<faults, refusals, cvars>>
    \/ \E d \in Devices : HubBroadcast(d) /\ UNCHANGED <<budget, cvars>>

SpecFile == Init /\ [][NextFile]_vars

\* SpecFault: clipboard_update traffic on connections that fail; two devices
\* connect.
FaultDevices == {DeviceOrder[1], DeviceOrder[2]}

UpdateFrames == {f \in Frames : f.type = "clipboard_update"}

NextFault ==
    \/ \E d \in FaultDevices : Connect(d) /\ UNCHANGED <<budget, cvars>>
    \/ \E d \in FaultDevices : HubRegister(d) /\ UNCHANGED <<budget, cvars>>
    \/ \E d \in FaultDevices : InitRead(d) /\ UNCHANGED <<budget, cvars>>
    \/ \E d \in FaultDevices : InitSend(d) /\ UNCHANGED <<budget, cvars>>
    \/ \E d \in FaultDevices, frame \in UpdateFrames :
          /\ framesRead < MaxFaultFrames
          /\ ReadFrame(d, frame)
          /\ framesRead' = framesRead + 1
          /\ UNCHANGED <<faults, refusals, cvars>>
    \/ \E d \in FaultDevices, fault \in ReadFaults :
          /\ faults < MaxFaults
          /\ ReadError(d, fault)
          /\ faults' = faults + 1
          /\ UNCHANGED <<framesRead, refusals, cvars>>
    \/ \E d \in FaultDevices :
          /\ faults < MaxFaults
          /\ ConnBreak(d)
          /\ faults' = faults + 1
          /\ UNCHANGED <<framesRead, refusals, cvars>>
    \/ \E d \in FaultDevices : HubUnregister(d) /\ UNCHANGED <<budget, cvars>>
    \/ \E d \in FaultDevices : GoUnregisterSend(d) /\ UNCHANGED <<budget, cvars>>
    \/ \E d \in FaultDevices : GoUnregisterDrop(d) /\ UNCHANGED <<budget, cvars>>
    \/ \E d \in FaultDevices : HubBroadcast(d) /\ UNCHANGED <<budget, cvars>>

SpecFault == Init /\ [][NextFault]_vars

\* SpecRoute: clipboard_update traffic of three devices whose connections may
\* stop taking writes.
NextRoute ==
    \/ \E d \in Devices : Connect(d) /\ UNCHANGED <<budget, cvars>>
    \/ \E d \in Devices : HubRegister(d) /\ UNCHANGED <<budget, cvars>>
    \/ \E d \in Devices : InitRead(d) /\ UNCHANGED <<budget, cvars>>
    \/ \E d \in Devices : InitSend(d) /\ UNCHANGED <<budget, cvars>>
    \/ \E d \in Devices, frame \in UpdateFrames :
          /\ framesRead < MaxFaultFrames
          /\ ReadFrame(d, frame)
          /\ framesRead' = framesRead + 1
          /\ UNCHANGED <<faults, refusals, cvars>>
    \/ \E d \in Devices :
          /\ faults < MaxFaults
          /\ ConnBreak(d)
          /\ faults' = faults + 1
          /\ UNCHANGED <<framesRead, refusals, cvars>>
    \/ \E d \in Devices : GoUnregisterSend(d) /\ UNCHANGED <<budget, cvars>>
    \/ \E d \in Devices : GoUnregisterDrop(d) /\ UNCHANGED <<budget, cvars>>
    \/ \E d \in Devices : HubBroadcast(d) /\ UNCHANGED <<budget, cvars>>

SpecRoute == Init /\ [][NextRoute]_vars

\* SpecDecode: two devices send text frames, some of which do not decode.
BadTexts ==
    {Text("malformed", "ok", f) : f \in UpdateFrames}
    \cup {Text("ok", "mistyped", f) : f \in UpdateFrames}

DecodeTexts == {Text("ok", "ok", f) : f \in ClipFrames} \cup BadTexts

NextDecode ==
    \/ \E d \in FaultDevices : Connect(d) /\ UNCHANGED <<budget, cvars>>
    \/ \E d \in FaultDevices : HubRegister(d) /\ UNCHANGED <<budget, cvars>>
    \/ \E d \in FaultDevices : InitRead(d) /\ UNCHANGED <<budget, cvars>>
    \/ \E d \in FaultDevices : InitSend(d) /\ UNCHANGED <<budget, cvars>>
    \/ \E d \in FaultDevices, text \in DecodeTexts :
          /\ framesRead < MaxFrames
          /\ ReadText(d, text)
          /\ framesRead' = framesRead + 1
          /\ UNCHANGED <<faults, refusals, cvars>>
    \/ \E d \in FaultDevices : HubBroadcast(d) /\ UNCHANGED <<budget, cvars>>

SpecDecode == Init /\ [][NextDecode]_vars

\* SpecKeepalive: two devices connect and stay live; their clients ping every
\* pingPeriod and now and then send a request_devices frame.
RequestFrames == {f \in Frames : f.type = "request_devices"}

NextKeepalive ==
    \/ \E d \in FaultDevices : Connect(d) /\ UNCHANGED <<budget, cvars>>
    \/ \E d \in FaultDevices : HubRegister(d) /\ UNCHANGED <<budget, cvars>>
    \/ \E d \in FaultDevices : InitRead(d) /\ UNCHANGED <<budget, cvars>>
    \/ \E d \in FaultDevices : InitSend(d) /\ UNCHANGED <<budget, cvars>>
    \/ \E d \in FaultDevices : StartPingLoop(d) /\ UNCHANGED <<budget, cvars>>
    \/ \E d \in FaultDevices : ClientPing(d) /\ UNCHANGED <<budget, cvars>>
    \/ Tick(MaxTicks * TickSeconds) /\ UNCHANGED <<budget, cvars>>
    \/ \E d \in FaultDevices, frame \in RequestFrames :
          /\ framesRead < MaxFaultFrames
          /\ ReadFrame(d, frame)
          /\ framesRead' = framesRead + 1
          /\ UNCHANGED <<faults, refusals, cvars>>
    \/ \E d \in FaultDevices : ReadDeadlineExpired(d) /\ UNCHANGED <<budget, cvars>>
    \/ \E d \in FaultDevices : HubUnregister(d) /\ UNCHANGED <<budget, cvars>>

SpecKeepalive == Init /\ [][NextKeepalive]_vars

\* SpecHub: two devices, runHub taken line by line; clipboard_update and
\* request_devices frames, and read loops that end.
NextHub ==
    \/ \E d \in FaultDevices : Connect(d) /\ UNCHANGED <<budget, cvars>>
    \/ \E d \in FaultDevices : hubTakeRegister(d) /\ UNCHANGED <<budget, cvars>>
    \/ \E d \in FaultDevices : hubTakeUnregister(d) /\ UNCHANGED <<budget, cvars>>
    \/ hubLock /\ UNCHANGED <<budget, cvars>>
    \/ hubRegisterBody /\ UNCHANGED <<budget, cvars>>
    \/ hubUnregisterBody /\ UNCHANGED <<budget, cvars>>
    \/ \E d \in FaultDevices : hubTakeBroadcast(d) /\ UNCHANGED <<budget, cvars>>
    \/ hubRLock /\ UNCHANGED <<budget, cvars>>
    \/ hubSnapshot /\ UNCHANGED <<budget, cvars>>
    \/ \E id \in FaultDevices : hubWriteBegin(id) /\ UNCHANGED <<budget, cvars>>
    \/ hubWriteEnd /\ UNCHANGED <<budget, cvars>>
    \/ \E d \in FaultDevices : InitRead(d) /\ UNCHANGED <<budget, cvars>>
    \/ \E d \in FaultDevices : InitClip(d) /\ UNCHANGED <<budget, cvars>>
    \/ \E d \in FaultDevices : InitClipWritten(d) /\ UNCHANGED <<budget, cvars>>
    \/ \E d \in FaultDevices : InitHistory(d) /\ UNCHANGED <<budget, cvars>>
    \/ \E d \in FaultDevices : InitHistoryWritten(d) /\ UNCHANGED <<budget, cvars>>
    \/ \E d \in FaultDevices, frame \in UpdateFrames :
          /\ framesRead < MaxFaultFrames
          /\ ReadFrame(d, frame)
          /\ framesRead' = framesRead + 1
          /\ UNCHANGED <<faults, refusals, cvars>>
    \/ \E d \in FaultDevices :
          /\ framesRead < MaxFaultFrames
          /\ ReadRequestSnapshot(d)
          /\ framesRead' = framesRead + 1
          /\ UNCHANGED <<faults, refusals, cvars>>
    \/ \E d \in FaultDevices : ReadRequestWritten(d) /\ UNCHANGED <<budget, cvars>>
    \/ \E d \in FaultDevices :
          /\ faults < MaxFaults
          /\ ReadError(d, "close")
          /\ faults' = faults + 1
          /\ UNCHANGED <<framesRead, refusals, cvars>>

SpecHub == Init /\ [][NextHub]_vars

\* SpecHubFair: SpecHub with the hub goroutine scheduled.  Inside a case body
\* runHub takes the registry lock as soon as it is free, and every write ends:
\* writeToClient sets a 10 s deadline.  At the select, Go picks among the
\* ready cases at random and the senders of one channel are served in the
\* order they arrived, so a handler whose send is ready every time the hub
\* comes back to the select is not passed over forever.
hubBody ==
    \/ hubLock
    \/ hubRegisterBody
    \/ hubUnregisterBody
    \/ hubRLock
    \/ hubSnapshot
    \/ \E id \in FaultDevices : hubWriteBegin(id)
    \/ hubWriteEnd

SpecHubFair ==
    /\ SpecHub
    /\ WF_vars(hubBody /\ UNCHANGED <<budget, cvars>>)
    /\ \A d \in FaultDevices :
          /\ SF_vars(hubTakeRegister(d) /\ UNCHANGED <<budget, cvars>>)
          /\ SF_vars(hubTakeUnregister(d) /\ UNCHANGED <<budget, cvars>>)
          /\ SF_vars(hubTakeBroadcast(d) /\ UNCHANGED <<budget, cvars>>)

\* SpecStore: one device sends clipboard_update frames until the history
\* overflows.
StoreDevices == {DeviceOrder[1]}

StoreFrames == {f \in Frames : f.type = "clipboard_update" /\ f.content \in {"", "a"}}

NextStore ==
    \/ \E d \in StoreDevices : Connect(d) /\ UNCHANGED <<budget, cvars>>
    \/ \E d \in StoreDevices : HubRegister(d) /\ UNCHANGED <<budget, cvars>>
    \/ \E d \in StoreDevices : InitRead(d) /\ UNCHANGED <<budget, cvars>>
    \/ \E d \in StoreDevices : InitSend(d) /\ UNCHANGED <<budget, cvars>>
    \/ \E d \in StoreDevices, frame \in StoreFrames :
          /\ framesRead < MaxStoreFrames
          /\ ReadFrame(d, frame)
          /\ framesRead' = framesRead + 1
          /\ UNCHANGED <<faults, refusals, cvars>>
    \/ \E d \in StoreDevices : HubBroadcast(d) /\ UNCHANGED <<budget, cvars>>

SpecStore == Init /\ [][NextStore]_vars

\* SpecClient: the client agent alone; the server side is its environment.
TeaMsgs == DOMAIN inbox

NextClient ==
    \/ \E ok \in BOOLEAN : RunConnect(ok) /\ UNCHANGED <<cbudget, svars>>
    \/ \E msg \in TeaMsgs : UpdateConnectionStatus(msg) /\ UNCHANGED <<cbudget, svars>>
    \/ RunListen /\ UNCHANGED <<cbudget, svars>>
    \/ \E frame \in ServerFrames : ListenerReadFrame(frame) /\ UNCHANGED <<cbudget, svars>>
    \/ \E err \in {"nil", "read error"} :
          ListenerReadError(err) /\ UNCHANGED <<cbudget, svars>>
    \/ \E lastContent \in Contents, readOk \in BOOLEAN :
          RunCheck(lastContent, readOk) /\ UNCHANGED <<cbudget, svars>>
    \/ \E msg \in TeaMsgs : UpdateLocalClipboardChecked(msg) /\ UNCHANGED <<cbudget, svars>>
    \/ \E cmd \in DOMAIN cmds, writeOk \in BOOLEAN :
          RunSend(cmd, writeOk) /\ UNCHANGED <<cbudget, svars>>
    \/ \E msg \in TeaMsgs : UpdateError(msg) /\ UNCHANGED <<cbudget, svars>>
    \/ KeyToggleSync /\ UNCHANGED <<cbudget, svars>>
    \/ \E content \in Contents :
          /\ copies < MaxCopies
          /\ UserCopy(content)
          /\ copies' = copies + 1
          /\ UNCHANGED <<received, serverClip, userChange, svars>>

SpecClient == Init /\ [][NextClient]_vars

\* SpecUpdate: Model.Update as a function of the Model and the message, for
\* clipboard traffic.  The commands run as in SpecClient, here without read,
\* write or send failures; the clipboard_update messages of a bounded set are
\* handed to Update directly, as ReceivedServerMsg values, while a listener
\* is running.
NextUpdate ==
    \/ \E ok \in BOOLEAN : RunConnect(ok) /\ UNCHANGED <<cbudget, svars>>
    \/ \E msg \in TeaMsgs : UpdateConnectionStatus(msg) /\ UNCHANGED <<cbudget, svars>>
    \/ RunListen /\ UNCHANGED <<cbudget, svars>>
    \/ \E lastContent \in Contents :
          RunCheck(lastContent, TRUE) /\ UNCHANGED <<cbudget, svars>>
    \/ \E msg \in TeaMsgs : UpdateLocalClipboardChecked(msg) /\ UNCHANGED <<cbudget, svars>>
    \/ \E cmd \in DOMAIN cmds : RunSend(cmd, TRUE) /\ UNCHANGED <<cbudget, svars>>
    \/ KeyToggleSync /\ UNCHANGED <<cbudget, svars>>
    \/ \E content \in Contents \ {""} :
          /\ copies < MaxCopies
          /\ UserCopy(content)
          /\ copies' = copies + 1
          /\ UNCHANGED <<received, serverClip, userChange, svars>>
    \/ \E content \in Contents \ {""} :
          /\ listening
          /\ received < MaxReceived
          /\ UpdateReceivedClipboardUpdate(content)
          /\ received' = received + 1
          /\ UNCHANGED <<copies, serverClip, userChange, svars>>
    \/ \E content \in Contents : RunWrite(content, TRUE) /\ UNCHANGED <<cbudget, svars>>

SpecUpdate == Init /\ [][NextUpdate]_vars

\* SpecSync: SpecUpdate with the server's current value followed.  A frame the
\* client writes reaches the read loop of its connection, which stores the
\* content as currentClip; an update of another device is stored by the server
\* only if it differs from currentClip, and is then broadcast to this client
\* and handed to Update.  The user copies while the client is in any state;
\* userChange records whether the value on the OS clipboard is one the user
\* put there while the client was Connected with sync enabled.
Syncing == connectedState = "Connected" /\ syncEnabled

SyncStep ==
    \/ \E ok \in BOOLEAN : RunConnect(ok)
    \/ \E msg \in TeaMsgs : UpdateConnectionStatus(msg)
    \/ RunListen

SyncCheck == \E lastContent \in Contents : RunCheck(lastContent, TRUE)

SyncChecked == \E msg \in TeaMsgs : UpdateLocalClipboardChecked(msg)

SyncSend ==
    \E cmd \in DOMAIN cmds :
        /\ RunSend(cmd, TRUE)
        /\ serverClip' = IF cmd.conn # "nil" /\ cmd.arg # "request_devices"
                          THEN cmd.arg ELSE serverClip
        /\ UNCHANGED <<copies, received, userChange, svars>>

SyncCopy(content) ==
    /\ copies < MaxCopies
    /\ UserCopy(content)
    /\ copies' = copies + 1
    /\ userChange' = IF content = osClipboard THEN userChange ELSE Syncing
    /\ UNCHANGED <<received, serverClip, svars>>

SyncInbound(content) ==
    /\ listening
    /\ received < MaxReceived
    /\ content # serverClip
    /\ serverClip' = content
    /\ UpdateReceivedClipboardUpdate(content)
    /\ received' = received + 1
    /\ UNCHANGED <<copies, userChange, svars>>

SyncWrite ==
    \E content \in Contents :
        /\ RunWrite(content, TRUE)
        /\ userChange' = IF content = osClipboard THEN userChange ELSE FALSE
        /\ UNCHANGED <<copies, received, serverClip, svars>>

NextSync ==
    \/ SyncStep /\ UNCHANGED <<cbudget, svars>>
    \/ SyncCheck /\ UNCHANGED <<cbudget, svars>>
    \/ SyncChecked /\ UNCHANGED <<cbudget, svars>>
    \/ SyncSend
    \/ KeyToggleSync /\ UNCHANGED <<cbudget, svars>>
    \/ \E content \in Contents \ {""} : SyncCopy(content)
    \/ \E content \in Contents \ {""} : SyncInbound(content)
    \/ SyncWrite

SpecSync == Init /\ [][NextSync]_vars

\* SpecSyncFair: SpecSync with every command Update returns run and every
\* message delivered: Bubble Tea runs each tea.Cmd in a goroutine of its own
\* and Update takes the messages one after the other; the poll comes back
\* every 2 s.  The user and the other devices are under no obligation.
SpecSyncFair ==
    /\ SpecSync
    /\ WF_vars(SyncStep /\ UNCHANGED <<cbudget, svars>>)
    /\ WF_vars(SyncCheck /\ UNCHANGED <<cbudget, svars>>)
    /\ WF_vars(SyncChecked /\ UNCHANGED <<cbudget, svars>>)
    /\ WF_vars(SyncSend)
    /\ WF_vars(SyncWrite)

\* SpecOffer: Model.Update as a function of the Model and the message, for
\* file offers: the file_offer messages of a bounded set are handed to Update
\* directly while a listener is running, and the user answers them.
NextOffer ==
    \/ \E ok \in BOOLEAN : RunConnect(ok) /\ UNCHANGED <<cbudget, svars>>
    \/ \E msg \in TeaMsgs : UpdateConnectionStatus(msg) /\ UNCHANGED <<cbudget, svars>>
    \/ RunListen /\ UNCHANGED <<cbudget, svars>>
    \/ \E cmd \in DOMAIN cmds, writeOk \in BOOLEAN :
          RunSend(cmd, writeOk) /\ UNCHANGED <<cbudget, svars>>
    \/ \E msg \in TeaMsgs : UpdateError(msg) /\ UNCHANGED <<cbudget, svars>>
    \/ \E senderId \in OfferSenders, filename \in OfferFiles, filesize \in OfferSizes :
          /\ listening
          /\ received < MaxReceived
          /\ UpdateReceivedFileOffer(senderId, filename, filesize)
          /\ received' = received + 1
          /\ UNCHANGED <<copies, serverClip, userChange, svars>>
    \/ KeyAcceptFile /\ UNCHANGED <<cbudget, svars>>
    \/ KeyRejectFile /\ UNCHANGED <<cbudget, svars>>

SpecOffer == Init /\ [][NextOffer]_vars

\* SpecAuth: connection requests that carry any key, two ids, clipboard updates.
NextAuth ==
    \/ \E d \in FaultDevices, queryApiKey \in ApiKeys :
          /\ Authorized(queryApiKey) \/ refusals < MaxRefusals
          /\ handleConnections(d, queryApiKey)
          /\ UNCHANGED <<framesRead, faults, cvars>>
    \/ \E d \in FaultDevices : HubRegister(d) /\ UNCHANGED <<budget, cvars>>
    \/ \E d \in FaultDevices : InitRead(d) /\ UNCHANGED <<budget, cvars>>
    \/ \E d \in FaultDevices : InitSend(d) /\ UNCHANGED <<budget, cvars>>
    \/ \E d \in FaultDevices, frame \in UpdateFrames :
          /\ framesRead < MaxFaultFrames
          /\ ReadFrame(d, frame)
          /\ framesRead' = framesRead + 1
          /\ UNCHANGED <<faults, refusals, cvars>>
    \/ \E d \in FaultDevices : HubBroadcast(d) /\ UNCHANGED <<budget, cvars>>

SpecAuth == Init /\ [][NextAuth]_vars

\* SpecFaultFair: SpecFault with the hub's select treated fairly.  A handler
\* whose read loop has ended blocks in `unregister <- client` until the hub
\* receives; every case body of runHub ends (writes carry a 10 s deadline) and
\* Go's select picks among the ready cases at random, so the hub does not pass
\* the waiting sender over forever.
SpecFaultFair ==
    /\ SpecFault
    /\ \A d \in FaultDevices : WF_vars(HubUnregister(d) /\ UNCHANGED <<budget, cvars>>)

\* SpecFaultFairGo: SpecFaultFair with every goroutine started after a failed
\* write scheduled: it runs its select, and either the hub takes the request
\* or the default case drops it.
SpecFaultFairGo ==
    /\ SpecFaultFair
    /\ \A d \in FaultDevices :
          WF_vars((GoUnregisterSend(d) \/ GoUnregisterDrop(d)) /\ UNCHANGED <<budget, cvars>>)

\* ------------------------------------------------------------------ properties

\* The clipboard_update frames of a connection's log.
ClipUpdates(log) == SelectSeq(log, LAMBDA m : m.type = "clipboard_update")

\* C1: whenever the current clipboard value is non-empty it is the first entry
\* of the history, the history never holds more than maxHistorySize entries,
\* and every change of the history puts the new current value in front of the
\* old entries, dropping the oldest one when the history was full.
C1_HistoryHeadAndBound ==
    /\ [](/\ Len(clipboardHistory) <= maxHistorySize
          /\ currentClip # "" =>
                /\ Len(clipboardHistory) >= 1
                /\ clipboardHistory[1] = currentClip)
    /\ [][clipboardHistory' # clipboardHistory =>
             clipboardHistory' =
                <<currentClip'>> \o
                SubSeq(clipboardHistory, 1,
                       IF Len(clipboardHistory) = maxHistorySize
                       THEN maxHistorySize - 1 ELSE Len(clipboardHistory))]_vars

\* The history is full, its oldest entry is no longer the first value ever
\* stored ("a"), so an eviction has happened, and the current value is set.
C1_Witness ==
    /\ Len(clipboardHistory) = maxHistorySize
    /\ clipboardHistory[maxHistorySize] = ""
    /\ currentClip = "a"

\* C2: no connection is ever written a clipboard_update whose sender is the
\* device of that connection.
C2_NoEchoToSender ==
    \A d \in Devices : \A i \in 1..Len(sent[d]) :
        sent[d][i].type = "clipboard_update" => sent[d][i].senderId # d

\* The hub has routed an update of a sender that is registered with an open
\* connection: another device holds it.
C2_Witness ==
    \E s \in Devices, d \in Devices :
        /\ s # d
        /\ s \in activeClients
        /\ conn[s] = "open"
        /\ hubMsg.type = "clipboard_update"
        /\ hubMsg.senderId = s
        /\ \E i \in 1..Len(sent[d]) : sent[d][i] = Marshal(hubMsg)

\* C3: a file_ack is written to the device named by its sourceId and to no
\* other connection.
C3_FileAckOnlyToSource ==
    \A d \in Devices : \A i \in 1..Len(sent[d]) :
        sent[d][i].type = "file_ack" => sent[d][i].targetId = d

C5_OfferNotToSender ==
    \A d \in Devices : \A i \in 1..Len(sent[d]) :
        (sent[d][i].type = "file_offer" /\ sent[d][i].targetId = "")
            => sent[d][i].senderId # d

C7_DeviceListAfterMembershipChange ==
    \A id \in DOMAIN clients :
        \E i \in 1..Len(sent[id]) :
            /\ sent[id][i].type = "device_list"
            /\ sent[id][i].devices = deviceList

\* C8: a device's connection is closed at most once and its registry entry
\* deleted at most once, however many unregister requests name it; after the
\* first request it is out of the registry with its connection closed, and
\* later requests change neither.
C8_UnregisterIdempotent ==
    \A d \in Devices :
        /\ closeCount[d] <= 1
        /\ delCount[d] <= 1
        /\ unregSeen[d] >= 1 =>
              /\ closeCount[d] = 1
              /\ delCount[d] = 1
              /\ d \notin DOMAIN clients
              /\ conn[d] = "closed"

\* The hub has processed two unregister requests for the same device.
C8_Witness ==
    \E d \in Devices : unregSeen[d] = 2 /\ closeCount[d] = 1 /\ delCount[d] = 1

\* C9: a device whose read loop has ended is eventually out of the registry
\* with its connection closed, and a device leaves the registry only in the
\* step that processes an unregister request naming it.
C9_EndedLoopIsRemoved ==
    /\ \A d \in Devices :
          (hpc[d] = "unregister") ~>
              (hpc[d] = "done" /\ d \notin DOMAIN clients /\ conn[d] = "closed")
    /\ [][\A d \in DOMAIN clients :
             d \notin DOMAIN clients' => unregSeen'[d] = unregSeen[d] + 1]_vars

\* A device's read loop has ended and the device is removed while the other
\* one is still registered.
C9_Witness ==
    \E d \in Devices, e \in Devices :
        /\ d # e
        /\ hpc[d] = "done"
        /\ d \notin DOMAIN clients
        /\ conn[d] = "closed"
        /\ e \in DOMAIN clients

\* C10: an agent that is Disconnected after a failure has a new connection
\* attempt under way.
C10_ReconnectScheduled ==
    (connectedState = "Disconnected" /\ lastError # "nil" /\ ~crashed)
        => BagIn(Cmd("connectCmd", "nil", ""), cmds)

\* C13: a clipboard_update whose content is the current value changes neither
\* the store nor what waits for the hub nor any connection's log; every update
\* that is handed to the hub has changed the store; no two neighbouring history
\* entries are equal.
C13_SameContentIsNoOp ==
    /\ [](\A i \in 1..(Len(clipboardHistory) - 1) :
             clipboardHistory[i] # clipboardHistory[i + 1])
    /\ [][/\ \A d \in Devices, frame \in UpdateFrames :
                (/\ hpc[d] = "reading"
                 /\ frame.content = currentClip
                 /\ ReadClipboardUpdate(d, frame))
                => UNCHANGED <<store, pendMsg, hpc, sent, clipboardLock>>
          /\ \A d \in Devices :
                (pendMsg'[d] # pendMsg[d] /\ pendMsg'[d].type = "clipboard_update")
                => /\ currentClip' # currentClip
                   /\ currentClip' = pendMsg'[d].content
                   /\ clipboardHistory'[1] = currentClip'
                   /\ Len(clipboardHistory') = Len(clipboardHistory) + 1]_vars

\* Two clipboard_update frames were read and the store changed once: one of the
\* two carried the value the store already had.
C13_Witness ==
    /\ framesRead = 2
    /\ Len(clipboardHistory) = 1
    /\ hubMsg.type = "clipboard_update"
    /\ \A d \in Devices : hpc[d] # "bcast"
    /\ \A d \in Devices : \A i \in 1..Len(sent[d]) : sent[d][i].type # "device_list"

C17_BadKeyRefused ==
    /\ [](DOMAIN clients \subseteq {d \in Devices : hpc[d] \notin {"idle", "register"}})
    /\ [][/\ \A d \in Devices, queryApiKey \in ApiKeys :
                (queryApiKey # apiKey /\ handleConnections(d, queryApiKey)) =>
                    UNCHANGED <<clients, hpc, conn, sent, pendMsg, store>>
          /\ refusals' # refusals =>
                UNCHANGED <<clients, hpc, conn, sent, pendMsg, store>>]_vars

\* Two requests were refused, then one was admitted: it got the first id and
\* is the only entry of the registry.
C17_Witness ==
    /\ refusals = MaxRefusals
    /\ DOMAIN clients = {DeviceOrder[1]}
    /\ \A d \in Devices \ {DeviceOrder[1]} : hpc[d] = "idle" /\ conn[d] = "none"

\* C11: the read and ping goroutines of a connection select on the context
\* whose cancel function the Model keeps in wsCtxCancel.
C11_DutiesObserveConnCancel ==
    listening => listenCtx = ConnCtx

\* C12: once a clipboard_update has reached a sync-enabled client whose user
\* made no local copy, and no message and no clipboard write is left to run,
\* the client's OS clipboard holds the value of that update.
C12_ClipboardConverges ==
    (/\ wireClip # ""
     /\ syncEnabled
     /\ copies = 0
     /\ inbox = EmptyBag
     /\ \A c \in DOMAIN cmds : c.name # "writeToClipboardCmd")
    => osClipboard = wireClip

C15_PollSendsNewLocalValue ==
    /\ [](/\ \A c \in DOMAIN cmds :
                c.name = "checkLocalClipboardCmd" => c.arg = lastSentClip
          /\ \A m \in DOMAIN inbox :
                (m.kind = "LocalClipboardCheckedMsg" /\ m.changed) =>
                    m.content # lastSentClip)
    /\ [][\A msg \in DOMAIN inbox :
             (/\ msg.kind = "LocalClipboardCheckedMsg"
              /\ inbox' = inbox (-) SetToBag({msg})
              /\ connectedState = "Connected"
              /\ syncEnabled
              /\ msg.err = "nil") =>
                IF msg.changed /\ msg.content # lastRcvdClip
                THEN /\ lastSentClip' = msg.content
                     /\ CopiesIn(Cmd("sendWebsocketMessageCmd", wsConn, msg.content), cmds')
                          = CopiesIn(Cmd("sendWebsocketMessageCmd", wsConn, msg.content),
                                     cmds) + 1
                ELSE /\ lastSentClip' = lastSentClip
                     /\ \A c \in DOMAIN cmds' :
                           c.name = "sendWebsocketMessageCmd" =>
                               CopiesIn(c, cmds') <= CopiesIn(c, cmds)]_vars

\* A local value was sent while another value had come from the network.
C15_Witness ==
    /\ received >= 1
    /\ lastSentClip = "a"
    /\ lastRcvdClip = "b"
    /\ osClipboard = "a"
    /\ BagIn(Cmd("sendWebsocketMessageCmd", wsConn, "a"), cmds)

\* C16: while the client is Connected, a poll is under way: scheduled, or its
\* result on its way to Update.
C16_PollSurvivesReadFailure ==
    (connectedState = "Connected" /\ ~crashed) =>
        \/ \E c \in DOMAIN cmds : c.name = "checkLocalClipboardCmd"
        \/ \E m \in DOMAIN inbox : m.kind = "LocalClipboardCheckedMsg"

C29_InitialUpdateNotStale ==
    \A d \in Devices :
        (/\ hpc[d] = "reading"
         /\ conn[d] = "open"
         /\ \A e \in Devices : hpc[e] # "bcast"
         /\ hubMsg.type = "clipboard_update"
         /\ hubMsg.senderId # d
         /\ hubMsg.content = currentClip
         /\ ClipUpdates(sent[d]) # <<>>)
        => ClipUpdates(sent[d])[Len(ClipUpdates(sent[d]))].content = currentClip

\* Whether s can be obtained from t by deleting entries.
RECURSIVE IsSubsequence(_, _)
IsSubsequence(s, t) ==
    IF s = <<>> THEN TRUE
    ELSE IF t = <<>> THEN FALSE
    ELSE IF s[1] = t[1] THEN IsSubsequence(Tail(s), Tail(t))
    ELSE IsSubsequence(s, Tail(t))

\* The history read from its oldest entry to its newest: the values in the
\* order in which they were stored.
RECURSIVE Reverse(_)
Reverse(s) == IF s = <<>> THEN <<>> ELSE Append(Reverse(Tail(s)), s[1])

\* The contents of the clipboard_update broadcasts (sender set) of a log.
BroadcastContents(log) ==
    LET u == SelectSeq(log, LAMBDA m : m.type = "clipboard_update" /\ m.senderId # "")
    IN  [i \in 1..Len(u) |-> u[i].content]

\* C27: the updates the hub has broadcast to a device are, in the order of
\* its log, among the values stored, in the order in which they were stored;
\* a log only grows at its end; when the hub takes a clipboard_update it
\* carries the store's value and is written last to every registered device
\* with an open connection but the sender; so with no broadcast waiting, a
\* device that was in the registry for the last update and did not send it
\* has that value as its last broadcast.
C27_BroadcastsInStoreOrder ==
    /\ [](\A d \in Devices :
             /\ IsSubsequence(BroadcastContents(sent[d]), Reverse(clipboardHistory))
             /\ (/\ \A e \in Devices : hpc[e] # "bcast"
                 /\ hubMsg.type = "clipboard_update"
                 /\ d \in activeClients \ {hubMsg.senderId}
                 /\ conn[d] = "open")
                => /\ BroadcastContents(sent[d]) # <<>>
                   /\ BroadcastContents(sent[d])[Len(BroadcastContents(sent[d]))]
                        = currentClip)
    /\ [][/\ \A d \in Devices :
                /\ Len(sent'[d]) >= Len(sent[d])
                /\ SubSeq(sent'[d], 1, Len(sent[d])) = sent[d]
          /\ \A s \in Devices :
                (HubBroadcast(s) /\ pendMsg[s].type = "clipboard_update") =>
                    /\ pendMsg[s].content = currentClip
                    /\ \A d \in DOMAIN clients \ {s} :
                          conn[d] = "open" =>
                             sent'[d] = Append(sent[d], Marshal(pendMsg[s]))]_vars

\* Two devices have set the clipboard, "a" first and "b" after it, and the
\* third has been broadcast both, in that order.
C27_Witness ==
    \E d \in Devices :
        /\ BroadcastContents(sent[d]) = <<"a", "b">>
        /\ clipboardHistory = <<"b", "a">>
        /\ currentClip = "b"
        /\ \E i, j \in 1..Len(sent[d]) :
              /\ sent[d][i].senderId \notin {"", d}
              /\ sent[d][j].senderId \notin {"", d, sent[d][i].senderId}

\* C23: in the step in which the hub routes a message, every device of its
\* delivery set whose connection takes the write has the message appended to
\* its log, whether or not the write to another device of the set fails, and
\* every device of the set whose write fails gets a removal request started.
C23_FailedWriteDoesNotAbort ==
    [][\A s \in Devices :
          HubBroadcast(s) =>
             \A d \in Targets(pendMsg[s], DOMAIN clients) :
                IF WriteOk(d)
                THEN sent'[d] = Append(sent[d], Marshal(pendMsg[s]))
                ELSE sent'[d] = sent[d] /\ unregGo'[d] = unregGo[d] + 1]_vars

\* The hub has routed an update to two devices: the write to one failed and
\* the other holds the message.
C23_Witness ==
    \E d \in Devices, e \in Devices :
        /\ d # e
        /\ hubMsg.type = "clipboard_update"
        /\ {d, e} \subseteq activeClients \ {hubMsg.senderId}
        /\ d \in hubFailed
        /\ e \notin hubFailed
        /\ sent[e] # <<>>
        /\ sent[e][Len(sent[e])] = Marshal(hubMsg)

\* C22: a device to which a write of the hub's current broadcast failed is
\* eventually out of the registry.
C22_FailedWriteLeadsToRemoval ==
    \A d \in Devices : (d \in hubFailed) ~> (d \notin DOMAIN clients)

C25_UndecodableFrameDropped ==
    [][\A d \in Devices, text \in DecodeTexts :
          /\ (/\ \/ text.json = "malformed"
                 \/ text.data = "mistyped" /\ text.type # "request_devices"
              /\ ReadText(d, text))
             => /\ UNCHANGED <<clients, store, clipboardLock, pendMsg, conn, sent,
                               hubLocals, unregGo, closeCount, delCount>>
                /\ hpc'[d] = "reading"
                /\ hpc' = hpc
          /\ (/\ dropped[d] > 0
              /\ text.json = "ok"
              /\ text.data = "ok"
              /\ text.type = "clipboard_update"
              /\ text.content # currentClip
              /\ ReadText(d, text))
             => /\ currentClip' = text.content
                /\ pendMsg'[d].type = "clipboard_update"
                /\ pendMsg'[d].content = text.content
                /\ hpc'[d] = "bcast"]_vars

\* The first frame read was a device's frame that did not decode; the second
\* was an update of the same device, which is stored and has been broadcast
\* to the other device.
C25_Witness ==
    \E d \in Devices, e \in Devices :
        /\ d # e
        /\ dropped[d] = 1
        /\ framesRead = 2
        /\ hubMsg.type = "clipboard_update"
        /\ hubMsg.senderId = d
        /\ clipboardHistory = <<hubMsg.content>>
        /\ currentClip = hubMsg.content
        /\ conn[d] = "open"
        /\ d \in DOMAIN clients
        /\ sent[e] # <<>>
        /\ sent[e][Len(sent[e])] = Marshal(hubMsg)

\* C26: while no application frame has been read, no device's read loop has
\* ended: every client is live and pings every pingPeriod.
C26_KeepaliveKeepsDevice ==
    framesRead = 0 => \A d \in Devices : hpc[d] \notin {"unregister", "done"}

\* The send on the register channel of d's handler has returned and the
\* handler has not begun to unregister.
Admitted(d) ==
    hpc[d] \in {"initRead", "initSend", "initClipWrite", "initHistory",
                "initHistoryWrite", "reading", "bcast", "respond"}

\* C21: a registry snapshot, taken by the hub for a broadcast or by a read
\* loop for a request_devices answer, holds every device whose register send
\* has returned and whose handler has not begun to unregister, and no device
\* whose unregister send has returned.
C21_SnapshotsSeeAcknowledgedMembership ==
    [][/\ (hubPc = "snapshot" /\ hubPc' # "snapshot") =>
             \A d \in Devices :
                /\ Admitted(d) => d \in activeClients'
                /\ hpc[d] = "done" => d \notin activeClients'
       /\ \A e \in Devices :
             (hpc[e] = "reading" /\ hpc'[e] = "respond") =>
                \A d \in Devices :
                   /\ Admitted(d) => d \in DOMAIN pendMsg'[e].devices
                   /\ hpc[d] = "done" => d \notin DOMAIN pendMsg'[e].devices]_vars

\* C28: no connection has two goroutines inside a write at once.
C28_OneWriterPerConnection ==
    \A d \in Devices : Cardinality(writing[d]) <= 1

\* C24: runHub is inside a network write only with the registry mutex
\* released; while runHub holds the mutex no write of runHub begins and its
\* steps write to no connection.
C24_NoWriteUnderRegistryLock ==
    /\ [](/\ hubPc = "write" => mutexHeld = ""
          /\ mutexHeld # "" => \A d \in Devices : "runHub" \notin writing[d])
    /\ [][(mutexHeld # "" /\ hubPc' # hubPc) =>
             /\ sent' = sent
             /\ \A d \in Devices : "runHub" \notin writing'[d] \/ mutexHeld' = ""]_vars

\* runHub is inside the write of an update to a member of a snapshot of two
\* devices, and the registry mutex is free.
C24_Witness ==
    /\ hubPc = "write"
    /\ mutexHeld = ""
    /\ hubMsg.type = "clipboard_update"
    /\ Cardinality(activeClients) = 2
    /\ "runHub" \in writing[hubClient]


C32_HubSendsComplete ==
    /\ []<>(hubPc = "select")
    /\ \A d \in FaultDevices :
          []<>(hpc[d] \notin {"register", "unregister", "bcast"} /\ clipboardLock # d)

\* C32 witness: the hub has taken a clipboard_update from the read loop of d,
\* which held clipboardLock while it waited and has released it, and another
\* handler is waiting in its send on the register or the unregister channel.
C32_Witness ==
    \E d, e \in FaultDevices :
        /\ hubPc = "broadcast"
        /\ hubMsg.type = "clipboard_update"
        /\ hubMsg.senderId = d
        /\ hpc[d] = "reading"
        /\ clipboardLock = ""
        /\ e # d
        /\ hpc[e] \in {"register", "unregister"}

====
